---- MODULE Spec2Model ----
(***************************************************************************)
(* Lunaricorn core: cluster registrar (leader), signaling hub and orb      *)
(* storage, modelled from the Python sources.                              *)
(*                                                                         *)
(* The module holds several specifications over one set of variables:      *)
(*   SpecIds      - id allocation of the registrar (cluster_state table)   *)
(*   SpecRegistry - beacons, inventory and readiness (last_seen table)     *)
(*   SpecSignal   - the hub's push pipeline (signaling_events table, PUB)   *)
(*   SpecOrb      - orb storage pushes and their signaling events           *)
(*   SpecDb       - the persistence adapter (DatabaseManager.execute_query) *)
(*   SpecSub      - a subscribed signaling client receiving the PUB stream  *)
(*   SpecClient   - the signaling client's requests, reconnects and threads *)
(*   SpecList     - the registrar's inventory listing (GET /v1/list)        *)
(*   SpecExpiry   - the registrar's alive window against the wall clock     *)
(*   SpecHubClients - the hub's client registry, heartbeats and cleanup      *)
(*   SpecBeacon   - the cluster client's beacon loop (SpecBeaconFair: with   *)
(*                  the threads scheduled fairly)                            *)
(* Each specification leaves the variables of the other subsystems alone.  *)
(***************************************************************************)
EXTENDS Integers, Sequences, FiniteSets, TLC

\* ---------------------------------------------------------------- bounds
MaxId == 3          \* id allocation stops once a counter reaches this value
NumCallers == 2     \* threads calling Leader.get_next_*_id
MaxTime == 4        \* the clock (whole seconds) runs from 0 to MaxTime
AliveTimeout == 2   \* discover.alive_timeout of leader_config.yaml, scaled down
MaxEvents == 4      \* rows in signaling_events, the two start-up rows included
MaxHubTime == 1     \* the hub's clock runs from 0 to MaxHubTime
MaxStmts == 3       \* statements handed to DatabaseManager.execute_query
MaxBeatTime == 5    \* the clock of the hub's client registry runs from 0 to MaxBeatTime
MaxWorkers == 2     \* beacon threads of one LeaderConnector that exist at a time
MaxFails == 3       \* failed beacons in a row that are told apart
MaxWaits == 4       \* wait_connection calls followed in one register_node call
MaxPushers == 2     \* gRPC handler threads that push at the same time
MaxThreads == 2     \* threads of one kind of a signaling client that are told apart

\* The hub's timing defaults in units of 30 seconds: heartbeat_interval 30,
\* timeout 60, subscriber_timeout 300.
HeartbeatInterval == 1
ZmqTimeout == 2
SubscriberTimeout == 10

MaxOrbRows == 1     \* rows created in each orb table

\* ------------------------------------------------------------- constants
NoRow == -1         \* "no row for this key" in cluster_state
Callers == 1..NumCallers
StateKeys == {"MESSAGE_ID", "OBJECT_ID"}
InstanceKeys == {"sig-1", "orb-1"}
NodeNames == {"signaling", "orb"}
NodeTypes == {"sig", "orb"}
RequiredNodes == {"signaling", "orb"}   \* discover.required_nodes
Missing == ""       \* a field that is absent or empty in the request
NoAck == [name |-> Missing, type |-> Missing, time |-> -1]
NoResp == [status |-> "none", key |-> Missing, branch |-> "none", twin |-> FALSE]
Null == "null"     \* JSON null / Python None / an absent key
NoMsg == [event_type |-> "", message |-> Null, source |-> Null, tags |-> Null,
          affected |-> Null, timestamp |-> -1]
NoReply == [status |-> "none", eid |-> 0, msg |-> NoMsg, appended |-> FALSE,
            published |-> FALSE, via |-> "none"]
\* Push requests as they arrive on the REP socket (values are JSON text).
PushMessages ==
    {[event_type |-> "alpha", message |-> "{k:1}", source |-> "s1", tags |-> "[x]", affected |-> "[a]"],
     [event_type |-> "beta", message |-> "{}", source |-> Null, tags |-> Null, affected |-> "[]"],
     [event_type |-> "", message |-> "{k:1}", source |-> "s1", tags |-> Null, affected |-> Null],
     [event_type |-> "alpha", message |-> Null, source |-> "s1", tags |-> Null, affected |-> Null]}
\* "timestamp" of a push request: the pushing client's clock, -1 when not sent.
ClientStamps == {-1, 0}
NoRet == [key |-> "none", value |-> 0, fresh |-> TRUE, aboveFloor |-> TRUE, aboveAll |-> TRUE]

VARIABLES
    dbUp,           \* leader: statements on the registrar's connection succeed
    cluster_state,  \* leader: table cluster_state, key -> i (NoRow when absent)
    idPc,           \* per caller: position inside Leader.get_next_*_id
    idKey,          \* per caller: which counter the call is about
    idCur,          \* per caller: local current_mid / current_oid
    idFloor,        \* history: largest value returned for the counter when the call started
    issued,         \* history: values returned so far, per counter
    lastRet,        \* history: the most recent return and how it relates to earlier ones
    now,            \* int(time.time()) as the registrar reads it
    last_seen,      \* leader: table last_seen, a set of rows
    lastAck,        \* history: per key, the latest beacon answered "received"
    beaconResp,     \* history: the answer to the latest beacon
    readyRes,       \* history: result of the latest ready() call ("none" before)
    hubNow,         \* hub: time.time() as the hub reads it
    sigDbUp,        \* hub: statements on the hub's connection succeed
    signaling_events, \* hub: table signaling_events, rows in insertion order
    eid_seq,        \* hub: last value of the bigserial sequence behind eid
    hub_events,     \* hub: Signaling.events, the in-memory list (eids; 0 = no eid yet)
    published,      \* hub: frames handed to the publish callback, in order
    pushReply,      \* history: the answer to the latest push and what was pushed
    orb_data,       \* orb: table orb_data, a set of rows
    orb_meta,       \* orb: table orb_meta, a set of rows
    orb_u_seq,      \* orb: number of uuids generated so far (a uuid is its number)
    orb_meta_seq,   \* orb: last value of the serial sequence behind orb_meta.id
    sigConnected,   \* orb: SignalingClient.connected of the storage's client
    orbRes,         \* history: the latest push_data / push_meta call and its outcome
    fetched,        \* history: what fetch_data returned for the key of the latest push_data
    pgLink,         \* adapter: its one connection: "open", "lost" (broken, not yet noticed), "closed"
    pgServerUp,     \* adapter: the database server accepts connections
    pgPending,      \* adapter: statements run in the connection's open transaction
    pgCommitted,    \* adapter: statements whose changes are committed
    xqPc,           \* per caller: position inside DatabaseManager.execute_query
    xqStmt,         \* per caller: the statement of the call
    xqLost,         \* history, per caller: where the call met a closed or lost connection
    stmtSeq,        \* history: number of statements handed to execute_query so far
    xqDone,         \* history: the latest execute_query call that returned or raised
    watched_types,  \* client: SignalingClient.watched_types
    rxNext,         \* client: position in the PUB stream of the next frame to receive
    sinkLog,        \* client: eids handed to subscribe_callback, in order
    starLog,        \* history: eids of the frames received since "*" was subscribed
    rxRes,          \* history: the latest frame handled and what became of it
    hubUp,          \* client: the hub process is running
    connected,      \* client: SignalingClient.connected
    running,        \* client: SignalingClient.running
    lock,           \* client: the thread holding SignalingClient.lock, or "free"
    reqSock,        \* client: the REQ socket is "open" or "closed"
    reqFsm,         \* client: REQ socket "idle", request "queued", or "replied"
    rqPc,           \* client: position of the lock holder inside _send_request
    sends,          \* client: send_string calls of the request in hand
    reconnects,     \* client: _reconnect calls of the request in hand
    hbAlive,        \* client: a heartbeat thread is running its loop
    rxPc,           \* client: the receive thread started before the last disconnect
    hubCycled,      \* history: the hub went down and came back, no push since
    cycleReq,       \* history: the push in hand is the first one after that
    cliDone,        \* history: the latest request that returned
    lastReconnect,  \* history: watched_types before and after the last reconnect
    reqOp,          \* history: the latest REQ socket operation and the lock holder
    listRes,        \* history: the latest answer of GET /v1/list
    half,           \* registrar: the half second of the wall clock inside `now`
    sentAt,         \* history: wall clock (half seconds) of each key's last accepted beacon
    hubClients,     \* hub: ZeroMQSignalingServer.clients, id -> last_seen (-1: absent)
    beatNow,        \* hub: time.time() of the hub's client registry, in heartbeat intervals
    nextCleanup,    \* hub: when _heartbeat_worker wakes up next
    beatResp,       \* history: the answer to the latest heartbeat
    dropSilence,    \* history: how long each client dropped by the latest cleanup had been silent
    bcnPc,          \* connector: position of each beacon thread in _registration_timer_worker
    stopEvent,      \* connector: LeaderConnector._registration_stop_event is set
    registered,     \* connector: LeaderConnector._registered_service is not None
    timer,          \* connector: the thread LeaderConnector._registration_timer names (0: None)
    appPc,          \* connector: position of the caller of register_service / stop_registration_timer
    stopAsked,      \* history: a stop was requested since the last successful registration
    fails,          \* history: beacons that failed in a row, counted up to MaxFails
    afterStop,      \* history: beacons each thread completed since the stop event was set
    stopped,        \* history: the application has called SignalingClient.disconnect()
    hbThreads,      \* client: heartbeat threads inside _send_heartbeats, counted up to MaxThreads
    rxThreads,      \* client: receive threads inside _receive_events, counted up to MaxThreads
    leaderUp,       \* node: GET on the registrar's base url answers 200
    rnPc,           \* node: position of the main thread inside NodeController.register_node
    leader_available, \* node: NodeController.leader_available
    abortEvent,     \* node: NodeController._abort_event is set
    rnRc,           \* node: the local rc of register_node's wait loop
    rnRet,          \* node: what register_node returned ("none" while it runs)
    rnHist,         \* history: what happened during the register_node call in hand
    browseRes,      \* history: the latest history query and its answer
    pushPc,         \* orb: position of each gRPC handler thread inside push_data
    pushJob,        \* orb: the mutation each handler thread has in hand
    rowWrites,      \* history: row writes of push_data completed so far
    eventOf         \* history: per eid, the number of the row write the event reports (0: none)

idVars == <<cluster_state, idPc, idKey, idCur, idFloor, issued, lastRet>>
regVars == <<now, last_seen, lastAck, beaconResp, readyRes>>
sigVars == <<hubNow, sigDbUp, signaling_events, eid_seq, hub_events, published, pushReply>>
orbVars == <<orb_data, orb_meta, orb_u_seq, orb_meta_seq, sigConnected, orbRes, fetched>>
dbVars == <<pgLink, pgServerUp, pgPending, pgCommitted, xqPc, xqStmt, xqLost, stmtSeq, xqDone>>
coreVars == <<dbUp, idVars, regVars, sigVars, orbVars>>
subVars == <<watched_types, rxNext, sinkLog, starLog, rxRes>>
cliVars == <<hubUp, connected, running, lock, reqSock, reqFsm, rqPc, sends,
             reconnects, hbAlive, rxPc, hubCycled, cycleReq, cliDone,
             lastReconnect, reqOp>>
expVars == <<half, sentAt>>
hubcVars == <<hubClients, beatNow, nextCleanup, beatResp, dropSilence>>
bcnVars == <<bcnPc, stopEvent, registered, timer, appPc, stopAsked, fails, afterStop>>
thrVars == <<hbThreads, rxThreads>>
nodeVars == <<leaderUp, rnPc, leader_available, abortEvent, rnRc, rnRet, rnHist>>
brVars == <<browseRes>>
concVars == <<pushPc, pushJob, rowWrites, eventOf>>
lateVars == <<nodeVars, brVars, concVars>>
nonNodeVars == <<dbVars, subVars, cliVars, listRes, expVars, hubcVars, bcnVars, stopped, thrVars, brVars, concVars, coreVars>>
extVars == <<dbVars, subVars, cliVars, listRes, expVars, hubcVars, bcnVars, stopped, thrVars, lateVars>>
vars == <<coreVars, extVars>>

SetMax(S) == IF S = {} THEN 0 ELSE CHOOSE m \in S : \A x \in S : x <= m

\* ------------------------------------------------- registrar: id allocation
\* DiscoverManagerPG.get_message_id / get_object_id: 0 when the connection
\* does not validate, when the query raises, or when the row is absent.
get_id(up, table, key) ==
    IF ~up THEN 0
    ELSE IF table[key] = NoRow THEN 0 ELSE table[key]

\* DiscoverManagerPG.update_message_id / update_object_id:
\* INSERT .. ON CONFLICT (key) DO UPDATE SET i = EXCLUDED.i; the table is left
\* alone when the connection does not validate or the statement raises.
update_id(up, table, key, value) ==
    IF ~up THEN table ELSE [table EXCEPT ![key] = value]

IdInit ==
    /\ dbUp = TRUE
    /\ cluster_state = [k \in StateKeys |-> NoRow]
    /\ idPc = [t \in Callers |-> "idle"]
    /\ idKey = [t \in Callers |-> "MESSAGE_ID"]
    /\ idCur = [t \in Callers |-> 0]
    /\ idFloor = [t \in Callers |-> 0]
    /\ issued = [k \in StateKeys |-> {}]
    /\ lastRet = NoRet

\* A caller enters Leader.get_next_message_id (key MESSAGE_ID) or
\* Leader.get_next_object_id (key OBJECT_ID).
CallNextId(t, k) ==
    /\ idPc[t] = "idle"
    /\ SetMax(issued[k] \cup {get_id(TRUE, cluster_state, k)}) < MaxId
    /\ idPc' = [idPc EXCEPT ![t] = "called"]
    /\ idKey' = [idKey EXCEPT ![t] = k]
    /\ idFloor' = [idFloor EXCEPT ![t] = SetMax(issued[k])]
    /\ UNCHANGED <<dbUp, cluster_state, idCur, issued, lastRet, regVars, sigVars, orbVars, extVars>>

\* current = discover_manager.get_*_id(); current += 1
ReadId(t) ==
    /\ idPc[t] = "called"
    /\ idCur' = [idCur EXCEPT ![t] = get_id(dbUp, cluster_state, idKey[t]) + 1]
    /\ idPc' = [idPc EXCEPT ![t] = "read"]
    /\ UNCHANGED <<dbUp, cluster_state, idKey, idFloor, issued, lastRet, regVars, sigVars, orbVars, extVars>>

\* discover_manager.update_*_id(current); return current
\* (the boolean result of update_*_id is not looked at)
WriteIdAndReturn(t) ==
    /\ idPc[t] = "read"
    /\ cluster_state' = update_id(dbUp, cluster_state, idKey[t], idCur[t])
    /\ lastRet' = [key |-> idKey[t], value |-> idCur[t],
                   fresh |-> idCur[t] \notin issued[idKey[t]],
                   aboveFloor |-> idCur[t] > idFloor[t],
                   aboveAll |-> idCur[t] > SetMax(issued[idKey[t]])]
    /\ issued' = [issued EXCEPT ![idKey[t]] = @ \cup {idCur[t]}]
    /\ idPc' = [idPc EXCEPT ![t] = "idle"]
    /\ idCur' = [idCur EXCEPT ![t] = 0]
    /\ idFloor' = [idFloor EXCEPT ![t] = 0]
    /\ UNCHANGED <<dbUp, idKey, regVars, sigVars, orbVars, extVars>>

\* The database stops answering (connection lost, statement timeout) ...
DbFail ==
    /\ dbUp
    /\ dbUp' = FALSE
    /\ UNCHANGED <<idVars, regVars, sigVars, orbVars, extVars>>

\* ... and answers again.
DbRecover ==
    /\ ~dbUp
    /\ dbUp' = TRUE
    /\ UNCHANGED <<idVars, regVars, sigVars, orbVars, extVars>>

\* The registrar process is restarted: calls in flight are gone, the table
\* stays. Leader.__init__ needs a working connection (install_db raises otherwise).
RestartLeader ==
    /\ dbUp
    /\ \E t \in Callers : idPc[t] # "idle"
    /\ idPc' = [t \in Callers |-> "idle"]
    /\ idCur' = [t \in Callers |-> 0]
    /\ idFloor' = [t \in Callers |-> 0]
    /\ UNCHANGED <<dbUp, cluster_state, idKey, issued, lastRet, regVars, sigVars, orbVars, extVars>>

IdNext ==
    \/ \E t \in Callers, k \in StateKeys : CallNextId(t, k)
    \/ \E t \in Callers : ReadId(t)
    \/ \E t \in Callers : WriteIdAndReturn(t)
    \/ DbFail
    \/ DbRecover
    \/ RestartLeader

\* --------------------------------------- registrar: inventory and readiness
RegInit ==
    /\ now = 0
    /\ last_seen = {}
    /\ lastAck = [k \in InstanceKeys |-> NoAck]
    /\ beaconResp = NoResp
    /\ readyRes = "none"

\* A slip in the UPDATE: the type column is left as it was.
update_row_keeps_type(rows, name, type, key, ts) ==
    {IF r.key = key THEN [name |-> name, type |-> r.type, key |-> key, last_update |-> ts]
                    ELSE r : r \in rows}

\* UPDATE last_seen SET name, type, last_update, key WHERE key = instance_key
update_row(rows, name, type, key, ts) ==
    {IF r.key = key THEN [name |-> name, type |-> type, key |-> key, last_update |-> ts]
                    ELSE r : r \in rows}

\* INSERT INTO last_seen (name, type, key, last_update)
insert_row(rows, name, type, key, ts) ==
    rows \cup {[name |-> name, type |-> type, key |-> key, last_update |-> ts]}

\* A slip in the existence check: the INSERT branch is taken for a known key too.
update_always_inserts(up, raises, rows, name, type, key, ts) ==
    IF ~up \/ raises THEN rows
    ELSE insert_row(rows, name, type, key, ts)

\* DiscoverManagerPG.update: the rows afterwards. Nothing is written when the
\* connection does not validate or a statement raises (every statement is its
\* own transaction and the write is the last one).
update(up, raises, rows, name, type, key, ts) ==
    IF ~up \/ raises THEN rows
    ELSE IF \E r \in rows : r.key = key
         THEN update_row(rows, name, type, key, ts)
         ELSE insert_row(rows, name, type, key, ts)

\* A slip in the window: a strict comparison drops the row that is exactly
\* alive_timeout old.
list_strict(up, rows, t, offset) ==
    IF ~up THEN {} ELSE {r \in rows : r.last_update > t - offset}

\* DiscoverManagerPG.list(offset): rows with last_update >= now - offset;
\* the empty list when the connection does not validate or the query raises.
list(up, rows, t, offset) ==
    IF ~up THEN {} ELSE {r \in rows : r.last_update >= t - offset}

\* A slip in the readiness rule: one alive required node is enough.
ready_any_required(up, rows, t) ==
    LET alive_node_names == {r.name : r \in list(up, rows, t, AliveTimeout)}
    IN  \E n \in RequiredNodes : n \in alive_node_names

\* Leader.ready: no required node is missing from the names of list(alive_timeout)
ready(up, rows, t) ==
    LET alive_node_names == {r.name : r \in list(up, rows, t, AliveTimeout)}
        missing_nodes == {n \in RequiredNodes : n \notin alive_node_names}
    IN  missing_nodes = {}

\* Why im_alive answers 500: a required field is missing, or update_node
\* returned False (no valid connection, or a statement raised).
refusal(name, type, key, up, raises) ==
    IF name = Missing \/ type = Missing \/ key = Missing THEN "fields"
    ELSE IF ~up \/ raises THEN "db"
    ELSE "none"

\* Two beacons that reach the registrar together: the beacon before this one
\* was acknowledged in the same second, for the same key, and had found the
\* key unknown.
Twin(prev, acks, key, t) ==
    /\ prev.status = "received"
    /\ prev.branch = "insert"
    /\ prev.key = key
    /\ acks[key].time = t

\* POST /v1/imalive: im_alive -> Leader.update_node -> DiscoverManagerPG.update.
\* The handler is an async function without an await, so one beacon is handled
\* at a time. raises: a statement raises although the connection validated.
Beacon(name, type, key, raises) ==
    LET valid == name # Missing /\ type # Missing /\ key # Missing
        rc == valid /\ dbUp /\ ~raises
    IN  /\ last_seen' = IF valid THEN update(dbUp, raises, last_seen, name, type, key, now)
                                 ELSE last_seen
        /\ beaconResp' = [status |-> IF rc THEN "received" ELSE "500",
                          key |-> key,
                          branch |-> IF ~rc THEN "none"
                                     ELSE IF \E r \in last_seen : r.key = key
                                          THEN "update" ELSE "insert",
                          twin |-> /\ refusal(name, type, key, dbUp, raises) = "none"
                                   /\ Twin(beaconResp, lastAck, key, now)]
        /\ lastAck' = IF rc THEN [lastAck EXCEPT ![key] =
                                     [name |-> name, type |-> type, time |-> now]]
                            ELSE lastAck
        /\ UNCHANGED <<dbUp, now, readyRes, idVars, sigVars, orbVars, extVars>>

\* A caller asks Leader.ready() (GET /v1/getenv, Leader.get_list).
CallReady ==
    /\ readyRes' = IF ready(dbUp, last_seen, now) THEN "true" ELSE "false"
    /\ UNCHANGED <<dbUp, now, last_seen, lastAck, beaconResp, idVars, sigVars, orbVars, extVars>>

\* One second passes.
Tick ==
    /\ now < MaxTime
    /\ now' = now + 1
    /\ readyRes' = "none"
    /\ UNCHANGED <<dbUp, last_seen, lastAck, beaconResp, idVars, sigVars, orbVars, extVars>>

RegNext ==
    \/ \E n \in NodeNames \cup {Missing}, ty \in NodeTypes \cup {Missing},
          k \in InstanceKeys \cup {Missing}, raises \in BOOLEAN :
            Beacon(n, ty, k, raises)
    \/ CallReady
    \/ Tick
    \/ DbFail
    \/ DbRecover


\* ------------------------------------------------------ signaling hub: push
\* Python truth value of a request field.
Falsy(v) == v \in {Null, "", "{}", "[]"}

\* The rows MessageStorageTest.test_create_event and
\* test_create_ownerless_event insert while the hub is constructed.
StartupRows(t) ==
    <<[eid |-> 1, type |-> "user_interaction", payload |-> "{action}",
       affected |-> "[user_session]", ctime |-> t, owner |-> "web_client",
       tags |-> "[ui_interaction]"],
      [eid |-> 2, type |-> "system_task", payload |-> "{system_event}",
       affected |-> "[database_primary]", ctime |-> t, owner |-> "ownerless",
       tags |-> "[system]"]>>

SigInit ==
    /\ hubNow = 0
    /\ sigDbUp = TRUE
    /\ signaling_events = StartupRows(0)
    /\ eid_seq = 2
    /\ hub_events = <<>>
    /\ published = <<>>
    /\ pushReply = NoReply

\* A slip in the owner fallback: the source goes in as it came.
event_row_no_fallback(eid, data) ==
    [eid |-> eid,
     type |-> data.event_type,
     payload |-> IF Falsy(data.payload) THEN Null ELSE data.payload,
     affected |-> IF Falsy(data.affected) THEN Null ELSE data.affected,
     ctime |-> data.timestamp,
     owner |-> data.source,
     tags |-> data.tags]

\* MessageStorage.create_event: the row of the INSERT. owner falls back to
\* "ownerless"; payload and affected go in as NULL when they are empty.
event_row(eid, data) ==
    [eid |-> eid,
     type |-> data.event_type,
     payload |-> IF Falsy(data.payload) THEN Null ELSE data.payload,
     affected |-> IF Falsy(data.affected) THEN Null ELSE data.affected,
     ctime |-> data.timestamp,
     owner |-> IF Falsy(data.source) THEN "ownerless" ELSE data.source,
     tags |-> data.tags]

\* A slip in the numbering: eid taken from the row count instead of the sequence.
create_event_counts_rows(table, seq, data) ==
    [eid |-> Len(table), table |-> Append(table, event_row(Len(table), data)), seq |-> seq + 1]

\* INSERT .. RETURNING eid: eid comes from the bigserial sequence.
create_event(table, seq, data) ==
    [eid |-> seq + 1, table |-> Append(table, event_row(seq + 1, data)), seq |-> seq + 1]

\* A slip in the order: subscribers are notified before the INSERT is tried.
push_notifies_first(dbOk, pubOk, table, seq, data) ==
    IF ~dbOk
    THEN [ret |-> -1, eid |-> 0, table |-> table, seq |-> seq,
          appended |-> FALSE, published |-> pubOk]
    ELSE LET c == create_event(table, seq, data)
         IN  [ret |-> IF pubOk THEN c.eid ELSE -1, eid |-> c.eid, table |-> c.table,
              seq |-> c.seq, appended |-> TRUE, published |-> pubOk]

\* Signaling.push: create_event, remember the event, notify_subscribers; any
\* exception on the way makes it return -1.
\*   dbOk  - the INSERT succeeds;  pubOk - the publish callback does not raise.
push(dbOk, pubOk, table, seq, data) ==
    IF ~dbOk
    THEN [ret |-> -1, eid |-> 0, table |-> table, seq |-> seq,
          appended |-> FALSE, published |-> FALSE]
    ELSE LET c == create_event(table, seq, data)
         IN  [ret |-> IF pubOk THEN c.eid ELSE -1, eid |-> c.eid, table |-> c.table,
              seq |-> c.seq, appended |-> TRUE, published |-> pubOk]

\* The EventData the REP handler builds from a push request; timestamp falls
\* back to the hub's clock t when the request carries none (-1).
event_data(msg, t) ==
    [event_type |-> msg.event_type, payload |-> msg.message, source |-> msg.source,
     tags |-> msg.tags, affected |-> msg.affected,
     timestamp |-> IF msg.timestamp = -1 THEN t ELSE msg.timestamp]

\* The reply of the REP handler to a push request.
push_reply(msg, r) ==
    [status |-> IF r.ret = -1 THEN "failed" ELSE "success",
     eid |-> r.ret, msg |-> msg,
     appended |-> r.appended, published |-> r.published, via |-> "rep"]

\* A push request on the REP socket: validate, build the event, Signaling.push,
\* answer. pub is the sequence of frames published so far.
rep_push(dbOk, pubOk, table, seq, pub, msg, t) ==
    IF msg.event_type = "" \/ msg.message = Null
    THEN [table |-> table, seq |-> seq, pub |-> pub, appended |-> FALSE, eid |-> 0,
          reply |-> [NoReply EXCEPT !.status = "error", !.msg = msg, !.via = "rep"]]
    ELSE LET r == push(dbOk, pubOk, table, seq, event_data(msg, t))
         IN  [table |-> r.table, seq |-> r.seq,
              pub |-> IF r.published
                      THEN Append(pub, [eid |-> r.eid, type |-> msg.event_type])
                      ELSE pub,
              appended |-> r.appended, eid |-> r.eid,
              reply |-> push_reply(msg, r)]

\* The hub serves one push request. ts is the client's timestamp (-1: none sent).
HubPush(m, ts, pubOk) ==
    LET msg == [event_type |-> m.event_type, message |-> m.message, source |-> m.source,
                tags |-> m.tags, affected |-> m.affected, timestamp |-> ts]
        h == rep_push(sigDbUp, pubOk, signaling_events, eid_seq, published, msg, hubNow)
    IN  /\ Len(signaling_events) < MaxEvents
        /\ signaling_events' = h.table
        /\ eid_seq' = h.seq
        /\ published' = h.pub
        /\ hub_events' = IF h.appended THEN Append(hub_events, h.eid) ELSE hub_events
        /\ pushReply' = h.reply
        /\ UNCHANGED <<hubNow, sigDbUp, dbUp, idVars, regVars, orbVars, extVars>>

\* Signaling.handle_push_event (the older entry point): reads "payload", takes
\* tags and affected from "source", stamps the hub's time, appends to the
\* in-memory list first, answers "failed" when the INSERT raises, and then
\* calls notify_subscribers with two arguments, which raises TypeError, so
\* nothing is published and no answer is produced. A string in the text[]
\* column tags makes the INSERT raise.
HandlePushEvent(m) ==
    LET absent == m.source = Null
        data == [event_type |-> m.event_type,
                 payload |-> IF m.message = Null THEN "{}" ELSE m.message,
                 source |-> m.source,
                 tags |-> IF absent THEN "[]" ELSE m.source,
                 affected |-> IF absent THEN "[]" ELSE m.source,
                 timestamp |-> hubNow]
        stored == sigDbUp /\ absent
        c == create_event(signaling_events, eid_seq, data)
        msg == [event_type |-> m.event_type, message |-> m.message, source |-> m.source,
                tags |-> m.tags, affected |-> m.affected, timestamp |-> -1]
    IN  /\ Len(signaling_events) < MaxEvents
        /\ Len(hub_events) + 2 < MaxEvents
        /\ IF m.event_type = ""
           THEN /\ pushReply' = [NoReply EXCEPT !.status = "error", !.msg = msg, !.via = "legacy"]
                /\ UNCHANGED <<signaling_events, eid_seq, hub_events>>
           ELSE /\ hub_events' = Append(hub_events, 0)
                /\ signaling_events' = IF stored THEN c.table ELSE signaling_events
                /\ eid_seq' = IF stored THEN c.seq ELSE eid_seq
                /\ pushReply' = [status |-> IF stored THEN "raised" ELSE "failed",
                                 eid |-> 0, msg |-> msg, appended |-> stored,
                                 published |-> FALSE, via |-> "legacy"]
        /\ UNCHANGED <<published, hubNow, sigDbUp, dbUp, idVars, regVars, orbVars, extVars>>

SigDbFail ==
    /\ sigDbUp
    /\ sigDbUp' = FALSE
    /\ UNCHANGED <<hubNow, signaling_events, eid_seq, hub_events, published, pushReply,
                   dbUp, idVars, regVars, orbVars, extVars>>

SigDbRecover ==
    /\ ~sigDbUp
    /\ sigDbUp' = TRUE
    /\ UNCHANGED <<hubNow, signaling_events, eid_seq, hub_events, published, pushReply,
                   dbUp, idVars, regVars, orbVars, extVars>>

\* One second passes on the hub's clock.
HubTick ==
    /\ hubNow < MaxHubTime
    /\ hubNow' = hubNow + 1
    /\ UNCHANGED <<sigDbUp, signaling_events, eid_seq, hub_events, published, pushReply,
                   dbUp, idVars, regVars, orbVars, extVars>>

SigNext ==
    \/ \E m \in PushMessages, ts \in ClientStamps, pubOk \in BOOLEAN : HubPush(m, ts, pubOk)
    \/ \E m \in PushMessages : HandlePushEvent(m)
    \/ SigDbFail
    \/ SigDbRecover
    \/ HubTick

\* --------------------------------------------------------- orb storage: push
Bodies == {"a", "b"}        \* dict contents of an orb_data record
RawBodies == {"raw"}        \* contents that are not a dict (bytes of an @raw record)
NoKey == -1                 \* the key of a pushed object is None
MetaUuids == {7}            \* uuids carried by pushed meta objects
\* What happens to one request on the REQ socket: answered in time, never
\* served by the hub, or served with the answer arriving after the 5 s poll.
NetOutcomes == {"ok", "lost", "late"}
\* One _send_request: the first send, whether the reconnect succeeds, the
\* second send (rc and net2 are looked at only as far as the code gets).
Exchanges ==
    {x \in [net : NetOutcomes, rc : BOOLEAN, net2 : NetOutcomes] :
        /\ x.net = "ok" => (x.rc /\ x.net2 = "ok")
        /\ ~x.rc => x.net2 = "lost"}
NoOrbRes == [op |-> "none", kind |-> "none", ok |-> FALSE, written |-> FALSE,
             id |-> 0, u |-> 0, body |-> "", pushed |-> "none", base |-> 0,
             given |-> NoKey]
NoData == [u |-> NoKey, body |-> ""]
NoFetch == [key |-> NoKey, row |-> NoData]

OrbInit ==
    /\ orb_data = {}
    /\ orb_meta = {}
    /\ orb_u_seq = 0
    /\ orb_meta_seq = 0
    /\ sigConnected = TRUE
    /\ orbRes = NoOrbRes
    /\ fetched = NoFetch

\* The test push_data makes of a new record: the object carries no u. (The
\* third test compares u with a uuid generated for the comparison, which no
\* given u equals.)
is_new_data(u) == u = NoKey

\* A test of push_meta that takes id 0 for the id of a row.
is_new_meta_only_none(id) == id = NoKey

\* The test push_meta makes of a new record: id is None or not above 0.
is_new_meta(id) == id = NoKey \/ id <= 0

\* OrbDataObject.to_record, the data column: the JSON text of a dict, and
\* '{}' for data of any other type.
to_record(body) == IF body \in Bodies THEN body ELSE "{}"

\* DataStorage.fetch_data(u): the row with key u, or none.
fetch_data(rows, u) ==
    IF \E r \in rows : r.u = u THEN CHOOSE r \in rows : r.u = u ELSE NoData

\* The payload notify_signaling sends: {"id": str(id), "uuid": str(u)}.
orb_payload(id, u) == "{id:" \o ToString(id) \o ",uuid:" \o ToString(u) \o "}"

\* The hub's tables after a request it served (h: what rep_push returns), and
\* what the client's poll sees of the answer.
served(net, h) ==
    [status |-> IF net = "ok" THEN h.reply.status ELSE "error",
     hub |-> [table |-> h.table, seq |-> h.seq, pub |-> h.pub]]

\* One send_string / poll(5000) / recv_string on the REQ socket.
\* hub = [table, seq, pub] of the hub before the request.
serve(net, dbOk, pubOk, hub, msg, t) ==
    IF net = "lost"
    THEN [status |-> "error", hub |-> hub]
    ELSE served(net, rep_push(dbOk, pubOk, hub.table, hub.seq, hub.pub, msg, t))

\* The answer _send_request hands back, with the client's connected flag.
answered(s, isConnected) ==
    [status |-> s.status, hub |-> s.hub, connected |-> isConnected]

\* The timeout branch of _send_request: _reconnect (rc: it succeeds), then the
\* request is sent once more; without an answer the result is
\* {"status": "error"}.
reconnect_and_retry(first, rc, net2, dbOk, pubOk, msg, t) ==
    IF ~rc
    THEN [status |-> "error", hub |-> first.hub, connected |-> FALSE]
    ELSE answered(serve(net2, dbOk, pubOk, first.hub, msg, t), TRUE)

\* SignalingClient._send_request: send, poll 5 s; on a timeout reconnect and
\* send once more. Nothing is raised to the caller.
send_request(net, rc, net2, dbOk, pubOk, hub, msg, t) ==
    IF net = "ok"
    THEN answered(serve(net, dbOk, pubOk, hub, msg, t), TRUE)
    ELSE reconnect_and_retry(serve(net, dbOk, pubOk, hub, msg, t), rc, net2,
                             dbOk, pubOk, msg, t)

\* What push_event returns when it did not raise.
returned(s) ==
    [raised |-> FALSE, status |-> s.status, hub |-> s.hub, connected |-> s.connected]

\* SignalingClient.push_event: raises ConnectionError when the client is not
\* connected; otherwise builds the request, stamps it with the client's clock
\* and returns what _send_request returns.
push_event(isConnected, net, rc, net2, dbOk, pubOk, hub, event_type, payload, source, tags, t) ==
    IF ~isConnected
    THEN [raised |-> TRUE, status |-> "not_connected", hub |-> hub, connected |-> FALSE]
    ELSE returned(send_request(net, rc, net2, dbOk, pubOk, hub,
                               [event_type |-> event_type, message |-> payload,
                                source |-> source, tags |-> tags, affected |-> Null,
                                timestamp |-> t], t))

\* DataStorage.notify_signaling: push_event with the record's id and uuid; the
\* returned answer is dropped, an exception passes through.
notify_signaling(isConnected, net, rc, net2, dbOk, pubOk, hub, op, id, u, t) ==
    push_event(isConnected, net, rc, net2, dbOk, pubOk, hub, op, orb_payload(id, u),
               "ORB", "[orb]", t)

\* What a notify leaves behind on the hub and in the client, and the record of
\* the call: it succeeded unless the notify raised.
OrbEffect(res, written, n) ==
    /\ signaling_events' = n.hub.table
    /\ eid_seq' = n.hub.seq
    /\ published' = n.hub.pub
    /\ hub_events' = hub_events \o
                     [i \in 1..(Len(n.hub.table) - Len(signaling_events)) |->
                         n.hub.table[Len(signaling_events) + i].eid]
    /\ sigConnected' = n.connected
    /\ orbRes' = [res EXCEPT !.ok = ~n.raised, !.written = written, !.pushed = n.status]

\* The hub's tables as the orb's client finds them.
HubTables == [table |-> signaling_events, seq |-> eid_seq, pub |-> published]

\* DataStorage.push_data as PushOrbData calls it. u = NoKey: the object
\* carries no uuid, a record is created under a generated uuid; otherwise the
\* record with that uuid is updated (update_record reports success also when
\* no row has that uuid). dbOk: the orb's INSERT / UPDATE succeeds.
PushData(u, body, dbOk, net, rc, net2, pubOk) ==
    LET isNew == is_new_data(u)
        id == IF isNew THEN orb_u_seq + 1 ELSE u
        op == IF isNew THEN "FileOp_new" ELSE "FileOp_update"
        res == [op |-> "push_data", kind |-> op, ok |-> FALSE, written |-> FALSE,
                id |-> id, u |-> id, body |-> body, pushed |-> "none",
                base |-> Len(signaling_events), given |-> u]
    IN  /\ Len(signaling_events) + 2 <= MaxEvents
        /\ isNew => orb_u_seq < MaxOrbRows
        /\ fetched' = NoFetch
        /\ IF ~dbOk
           THEN /\ orbRes' = res
                /\ UNCHANGED <<orb_data, orb_u_seq, signaling_events, eid_seq, published,
                               hub_events, sigConnected>>
           ELSE /\ orb_data' = IF isNew
                               THEN orb_data \cup {[u |-> id, body |-> to_record(body)]}
                               ELSE {IF r.u = u THEN [r EXCEPT !.body = to_record(body)] ELSE r :
                                        r \in orb_data}
                /\ orb_u_seq' = IF isNew THEN id ELSE orb_u_seq
                /\ OrbEffect(res, isNew \/ \E r \in orb_data : r.u = u,
                             notify_signaling(sigConnected, net, rc, net2, sigDbUp, pubOk,
                                              HubTables, op, id, id, now))
        /\ UNCHANGED <<orb_meta, orb_meta_seq, hubNow, sigDbUp, pushReply,
                       dbUp, idVars, regVars, extVars>>

\* DataStorage.push_meta as PushOrbMeta calls it. id None or <= 0: a record
\* is created with the next serial id; otherwise the record with that id is
\* updated. mu is the uuid the meta object carries.
PushMeta(id, mu, dbOk, net, rc, net2, pubOk) ==
    LET isNew == is_new_meta(id)
        rid == IF isNew THEN orb_meta_seq + 1 ELSE id
        op == IF isNew THEN "FileOp_new" ELSE "FileOp_update"
        res == [op |-> "push_meta", kind |-> op, ok |-> FALSE, written |-> FALSE,
                id |-> rid, u |-> mu, body |-> "", pushed |-> "none",
                base |-> Len(signaling_events), given |-> id]
    IN  /\ Len(signaling_events) + 2 <= MaxEvents
        /\ isNew => orb_meta_seq < MaxOrbRows
        /\ fetched' = NoFetch
        /\ IF ~dbOk
           THEN /\ orbRes' = res
                /\ UNCHANGED <<orb_meta, orb_meta_seq, signaling_events, eid_seq, published,
                               hub_events, sigConnected>>
           ELSE /\ orb_meta' = IF isNew
                               THEN orb_meta \cup {[id |-> rid, u |-> mu]}
                               ELSE {IF r.id = id THEN [r EXCEPT !.u = mu] ELSE r :
                                        r \in orb_meta}
                /\ orb_meta_seq' = IF isNew THEN rid ELSE orb_meta_seq
                /\ OrbEffect(res, isNew \/ \E r \in orb_meta : r.id = id,
                             notify_signaling(sigConnected, net, rc, net2, sigDbUp, pubOk,
                                              HubTables, op, rid, mu, now))
        /\ UNCHANGED <<orb_data, orb_u_seq, hubNow, sigDbUp, pushReply,
                       dbUp, idVars, regVars, extVars>>

\* The orb service is started again: DataStorage.__init__ returns only with a
\* connected signaling client. The tables are the database's and stay.
OrbRestart ==
    /\ ~sigConnected
    /\ sigConnected' = TRUE
    /\ UNCHANGED <<orb_data, orb_meta, orb_u_seq, orb_meta_seq, orbRes, fetched,
                   dbUp, idVars, regVars, sigVars, extVars>>

\* fetch_data with the key of the record the latest push_data returned, as in
\* the round trip of the client's test.
FetchData ==
    /\ orbRes.op = "push_data"
    /\ orbRes.ok
    /\ fetched = NoFetch
    /\ fetched' = [key |-> orbRes.u, row |-> fetch_data(orb_data, orbRes.u)]
    /\ UNCHANGED <<orb_data, orb_meta, orb_u_seq, orb_meta_seq, sigConnected, orbRes,
                   dbUp, idVars, regVars, sigVars, extVars>>

\* The outcomes of one push call that can differ in the current state: the
\* exchange is reached only after a successful write with a connected client,
\* and the publish only after a successful INSERT on the hub.
OrbInputs ==
    {i \in [dbOk : BOOLEAN, x : Exchanges, pubOk : BOOLEAN] :
        /\ (~i.dbOk \/ ~sigConnected) => (i.x.net = "ok" /\ i.pubOk)
        /\ ~sigDbUp => i.pubOk}

OrbNext ==
    \/ \E u \in NoKey..MaxOrbRows, body \in Bodies \cup RawBodies, i \in OrbInputs :
            PushData(u, body, i.dbOk, i.x.net, i.x.rc, i.x.net2, i.pubOk)
    \/ \E id \in NoKey..MaxOrbRows, mu \in MetaUuids, i \in OrbInputs :
            PushMeta(id, mu, i.dbOk, i.x.net, i.x.rc, i.x.net2, i.pubOk)
    \/ FetchData
    \/ OrbRestart
    \/ SigDbFail
    \/ SigDbRecover

\* ------------------------------------------------- persistence adapter
NoLoss == [at |-> "none", up |-> FALSE]
NoXq == [caller |-> 0, stmt |-> 0, result |-> "none", lostAt |-> "none", up |-> FALSE,
         sqlError |-> FALSE]

DbInit ==
    /\ pgLink = "open"
    /\ pgServerUp = TRUE
    /\ pgPending = {}
    /\ pgCommitted = {}
    /\ xqPc = [t \in Callers |-> "idle"]
    /\ xqStmt = [t \in Callers |-> 0]
    /\ xqLost = [t \in Callers |-> NoLoss]
    /\ stmtSeq = 0
    /\ xqDone = NoXq

\* The record of a finished call.
xq_done(t, stmt, result, loss, sqlError) ==
    [caller |-> t, stmt |-> stmt, result |-> result, lostAt |-> loss.at, up |-> loss.up,
     sqlError |-> sqlError]

\* DatabaseManager.get_connection: a connection that is closed, or on which
\* the probe SELECT 1 raises, is replaced by reset_connection, once; when the
\* server does not accept the new connection the error goes to the caller.
\* Closing the old connection drops its open transaction.
get_connection(link, up, pending) ==
    IF link = "open"
    THEN [ok |-> TRUE, link |-> "open", pending |-> pending, lost |-> FALSE]
    ELSE IF up
    THEN [ok |-> TRUE, link |-> "open", pending |-> {}, lost |-> TRUE]
    ELSE [ok |-> FALSE, link |-> "closed", pending |-> {}, lost |-> TRUE]

\* execute_query, first part: a caller enters and gets the connection. No
\* lock is taken: DatabaseManager._lock guards only the creation of the
\* singleton.
XqBegin(t) ==
    LET c == get_connection(pgLink, pgServerUp, pgPending)
        stmt == stmtSeq + 1
        loss == IF c.lost THEN [at |-> "probe", up |-> pgServerUp] ELSE NoLoss
    IN  /\ xqPc[t] = "idle"
        /\ stmtSeq < MaxStmts
        /\ stmtSeq' = stmt
        /\ pgLink' = c.link
        /\ pgPending' = c.pending
        /\ IF c.ok
           THEN /\ xqPc' = [xqPc EXCEPT ![t] = "ready"]
                /\ xqStmt' = [xqStmt EXCEPT ![t] = stmt]
                /\ xqLost' = [xqLost EXCEPT ![t] = loss]
                /\ UNCHANGED xqDone
           ELSE /\ xqDone' = xq_done(t, stmt, "error", loss, FALSE)
                /\ UNCHANGED <<xqPc, xqStmt, xqLost>>
        /\ UNCHANGED <<pgServerUp, pgCommitted, subVars, cliVars, listRes, expVars, hubcVars, bcnVars, stopped, thrVars, lateVars, coreVars>>

\* execute_query, cur.execute(query, params). sqlError: the statement itself
\* raises. On any exception the handler rolls the connection back if it is
\* not closed, which discards whatever the transaction holds, and re-raises.
XqExecute(t, sqlError) ==
    LET broken == pgLink # "open"
        loss == IF broken THEN [at |-> "execute", up |-> pgServerUp] ELSE xqLost[t]
    IN  /\ xqPc[t] = "ready"
        /\ IF broken \/ sqlError
           THEN /\ pgLink' = IF broken THEN "closed" ELSE pgLink
                /\ pgPending' = {}
                /\ xqPc' = [xqPc EXCEPT ![t] = "idle"]
                /\ xqDone' = xq_done(t, xqStmt[t], "error", loss, sqlError /\ ~broken)
                /\ xqLost' = [xqLost EXCEPT ![t] = NoLoss]
           ELSE /\ pgPending' = pgPending \cup {xqStmt[t]}
                /\ xqPc' = [xqPc EXCEPT ![t] = "executed"]
                /\ UNCHANGED <<pgLink, xqDone, xqLost>>
        /\ UNCHANGED <<pgServerUp, pgCommitted, xqStmt, stmtSeq, subVars, cliVars, listRes, expVars, hubcVars, bcnVars, stopped, thrVars, lateVars, coreVars>>

\* execute_query, conn.commit() and the return of the result: the commit
\* makes everything in the connection's transaction durable.
XqCommit(t) ==
    LET broken == pgLink # "open"
        loss == IF broken THEN [at |-> "commit", up |-> pgServerUp] ELSE xqLost[t]
    IN  /\ xqPc[t] = "executed"
        /\ pgLink' = IF broken THEN "closed" ELSE pgLink
        /\ pgCommitted' = IF broken THEN pgCommitted ELSE pgCommitted \cup pgPending
        /\ pgPending' = {}
        /\ xqPc' = [xqPc EXCEPT ![t] = "idle"]
        /\ xqDone' = xq_done(t, xqStmt[t], IF broken THEN "error" ELSE "ok", loss, FALSE)
        /\ xqLost' = [xqLost EXCEPT ![t] = NoLoss]
        /\ UNCHANGED <<pgServerUp, xqStmt, stmtSeq, subVars, cliVars, listRes, expVars, hubcVars, bcnVars, stopped, thrVars, lateVars, coreVars>>

\* The connection breaks (server restart, network); the server drops the
\* transaction that was open on it.
ConnLost ==
    /\ pgLink = "open"
    /\ pgLink' = "lost"
    /\ pgPending' = {}
    /\ UNCHANGED <<pgServerUp, pgCommitted, xqPc, xqStmt, xqLost, stmtSeq, xqDone, subVars, cliVars, listRes, expVars, hubcVars, bcnVars, stopped, thrVars, lateVars, coreVars>>

\* The server stops or starts accepting connections.
ServerToggle ==
    /\ pgServerUp' = ~pgServerUp
    /\ pgLink' = IF pgServerUp /\ pgLink = "open" THEN "lost" ELSE pgLink
    /\ pgPending' = IF pgServerUp THEN {} ELSE pgPending
    /\ UNCHANGED <<pgCommitted, xqPc, xqStmt, xqLost, stmtSeq, xqDone, subVars, cliVars, listRes, expVars, hubcVars, bcnVars, stopped, thrVars, lateVars, coreVars>>

DbNext ==
    \/ \E t \in Callers : XqBegin(t)
    \/ \E t \in Callers, sqlError \in BOOLEAN : XqExecute(t, sqlError)
    \/ \E t \in Callers : XqCommit(t)
    \/ ConnLost
    \/ ServerToggle

\* ------------------------------------------- signaling client: reception
EVENT_FILTER_ANY == "*"
WatchTypes == {"alpha", "beta", EVENT_FILTER_ANY}
NoRx == [eid |-> 0, type |-> "", wanted |-> FALSE, sink |-> FALSE, raised |-> FALSE]

SubInit ==
    /\ watched_types = {}
    /\ rxNext = 1
    /\ sinkLog = <<>>
    /\ starLog = <<>>
    /\ rxRes = NoRx

\* SignalingClient._event_wanted(event).
event_wanted(watched, type) ==
    \E wt \in watched : wt = EVENT_FILTER_ANY \/ type = wt

\* SignalingClient._handle_event for a frame that has "type", "payload" and
\* "eid": the filter is called as self._event_wanted(), without the event,
\* which raises TypeError before the sink is reached (and the sink is named
\* subscribe_callback without self). _receive_events logs the exception.
handle_event(frame, watched) ==
    [sink |-> FALSE, raised |-> TRUE]

\* SignalingClient.subscribe for one type.
Subscribe(ty) ==
    /\ ty \notin watched_types
    /\ watched_types' = watched_types \cup {ty}
    /\ starLog' = IF ty = EVENT_FILTER_ANY THEN <<>> ELSE starLog
    /\ UNCHANGED <<rxNext, sinkLog, rxRes, dbVars, cliVars, listRes, expVars, hubcVars, bcnVars, stopped, thrVars, lateVars, coreVars>>

\* SignalingClient.unsubscribe for one watched type.
Unsubscribe(ty) ==
    /\ ty \in watched_types
    /\ watched_types' = watched_types \ {ty}
    /\ starLog' = IF ty = EVENT_FILTER_ANY THEN <<>> ELSE starLog
    /\ UNCHANGED <<rxNext, sinkLog, rxRes, dbVars, cliVars, listRes, expVars, hubcVars, bcnVars, stopped, thrVars, lateVars, coreVars>>

\* One round of _receive_events: the next frame of the PUB stream is read
\* from the SUB socket and handled. The SUB socket connects to the address
\* built from config.rep_port (__init__ sets pub_port from rep_port), so this
\* is a client whose configured port is the one the hub publishes on.
RxReceive ==
    LET frame == published[rxNext]
        h == handle_event(frame, watched_types)
    IN  /\ rxNext <= Len(published)
        /\ rxNext' = rxNext + 1
        /\ sinkLog' = IF h.sink THEN Append(sinkLog, frame.eid) ELSE sinkLog
        /\ starLog' = IF EVENT_FILTER_ANY \in watched_types
                      THEN Append(starLog, frame.eid) ELSE starLog
        /\ rxRes' = [eid |-> frame.eid, type |-> frame.type,
                     wanted |-> event_wanted(watched_types, frame.type),
                     sink |-> h.sink, raised |-> h.raised]
        /\ UNCHANGED <<watched_types, dbVars, cliVars, listRes, expVars, hubcVars, bcnVars, stopped, thrVars, lateVars, coreVars>>

SubNext ==
    \/ \E ty \in WatchTypes : Subscribe(ty)
    \/ \E ty \in WatchTypes : Unsubscribe(ty)
    \/ RxReceive
    \/ \E m \in PushMessages, pubOk \in BOOLEAN : HubPush(m, 0, pubOk)
    \/ SigDbFail
    \/ SigDbRecover

\* ---------------------------------- signaling client: requests, reconnects
Requesters == {"app", "hb"}
NoDone == [by |-> "none", result |-> "none", sends |-> 0, reconnects |-> 0,
           afterCycle |-> FALSE, hb |-> TRUE]
NoReconnect == [before |-> {}, after |-> {}]
NoOp == [op |-> "none", by |-> "none", holder |-> "none"]

\* The client after SignalingClient(config, id) and a first connect().
\* hbThreads and rxThreads count the thread the model follows (hbAlive, rxPc)
\* and the threads started by a connect() since the latest disconnect(); all
\* of these are inside their loops.
ClientInit ==
    /\ hubUp = TRUE
    /\ connected = TRUE
    /\ running = TRUE
    /\ lock = "free"
    /\ reqSock = "open"
    /\ reqFsm = "idle"
    /\ rqPc = "idle"
    /\ sends = 0
    /\ reconnects = 0
    /\ hbAlive = TRUE
    /\ rxPc = "run"
    /\ hubCycled = FALSE
    /\ cycleReq = FALSE
    /\ cliDone = NoDone
    /\ lastReconnect = NoReconnect
    /\ reqOp = NoOp
    /\ stopped = FALSE
    /\ hbThreads = 1
    /\ rxThreads = 1

\* What becomes of a request handed to the REQ socket: the hub answers it when
\* it is up, otherwise the request waits in the socket.
sent(up) == IF up THEN "replied" ELSE "queued"

\* SignalingClient.disconnect() run by thread `by` while `holder` has the lock:
\* flags down, REQ and SUB sockets closed, context terminated. A receive
\* thread polling the SUB socket gets a ZMQError.
disconnect(by, holder) ==
    /\ running' = FALSE
    /\ connected' = FALSE
    /\ reqSock' = "closed"
    /\ reqFsm' = "idle"
    /\ rxPc' = IF by = "rx" THEN "disc" ELSE IF rxPc = "run" THEN "err" ELSE rxPc
    /\ reqOp' = [op |-> "close", by |-> by, holder |-> holder]
    /\ hbThreads' = IF hbAlive THEN 1 ELSE 0
    /\ rxThreads' = IF by = "rx" \/ rxPc # "gone" THEN 1 ELSE 0

\* SignalingClient.connect() run by thread `by` (as the second half of
\* _reconnect): new sockets, flags up, a new receive thread and a new heartbeat
\* thread, and watched_types set to []. When the try block raises the flags
\* are put down and False is returned. `resend` tells whether the caller sends
\* the request again on the new socket straight away.
connect(by, holder, ok, resend) ==
    /\ running' = ok
    /\ connected' = ok
    /\ reqSock' = IF ok THEN "open" ELSE reqSock
    /\ reqFsm' = IF ok /\ resend THEN sent(hubUp) ELSE "idle"
    /\ hbAlive' = (ok \/ hbAlive)
    /\ rxPc' = IF ~ok THEN (IF by = "rx" THEN "gone" ELSE rxPc)
               ELSE IF by = "rx" \/ rxPc = "gone" THEN "run" ELSE rxPc
    /\ watched_types' = IF ok THEN {} ELSE watched_types
    /\ lastReconnect' = IF ok THEN [before |-> watched_types, after |-> {}]
                        ELSE lastReconnect
    /\ reqOp' = IF ok THEN [op |-> IF resend THEN "send" ELSE "open",
                            by |-> by, holder |-> holder]
                ELSE reqOp
    /\ hbThreads' = IF ok /\ hbThreads < MaxThreads THEN hbThreads + 1 ELSE hbThreads
    /\ rxThreads' = IF ok THEN (IF rxThreads < MaxThreads THEN rxThreads + 1 ELSE rxThreads)
                    ELSE IF by = "rx" THEN 0 ELSE rxThreads

\* The request in hand returns `result` to its caller and the lock is released.
request_returns(result, nsends, nreconnects, hbThen) ==
    /\ cliDone' = [by |-> lock, result |-> result, sends |-> nsends,
                   reconnects |-> nreconnects,
                   afterCycle |-> (lock = "app" /\ cycleReq), hb |-> hbThen]
    /\ cycleReq' = FALSE
    /\ lock' = "free"
    /\ rqPc' = "idle"

\* push_event (r = "app") or one heartbeat of heartbeat_loop (r = "hb") enters
\* _send_request: the lock is taken and the request is sent. send_string
\* raises ZMQError when the socket still waits for the reply of an earlier
\* request; the handler then starts a reconnect.
SendRequest(r) ==
    /\ lock = "free"
    /\ connected
    /\ r = "hb" => (hbAlive /\ running)
    /\ lock' = r
    /\ cycleReq' = (r = "app" /\ hubCycled /\ hubUp)
    /\ hubCycled' = IF r = "app" THEN FALSE ELSE hubCycled
    /\ IF reqFsm = "idle"
       THEN /\ reqFsm' = sent(hubUp)
            /\ sends' = 1
            /\ reconnects' = 0
            /\ rqPc' = "wait1"
            /\ reqOp' = [op |-> "send", by |-> r, holder |-> r]
            /\ UNCHANGED <<running, connected, reqSock, rxPc, thrVars>>
       ELSE /\ disconnect(r, r)
            /\ sends' = 1
            /\ reconnects' = 1
            /\ rqPc' = "dz"
    /\ UNCHANGED <<hubUp, hbAlive, cliDone, lastReconnect, subVars, dbVars, listRes, expVars, hubcVars, bcnVars, stopped, lateVars, coreVars>>

\* push_event on a client that is not connected raises ConnectionError; the
\* flag is read before the lock is asked for, so this also happens while
\* another thread is in the middle of a reconnect.
PushNotConnected ==
    /\ lock # "app"
    /\ ~connected
    /\ cliDone' = [by |-> "app", result |-> "not_connected", sends |-> 0,
                   reconnects |-> 0, afterCycle |-> (hubCycled /\ hubUp),
                   hb |-> hbAlive]
    /\ hubCycled' = FALSE
    /\ UNCHANGED <<hubUp, connected, running, lock, reqSock, reqFsm, rqPc, sends,
                   reconnects, hbAlive, rxPc, cycleReq, lastReconnect, reqOp,
                   subVars, dbVars, listRes, expVars, hubcVars, bcnVars, stopped, thrVars, lateVars, coreVars>>

\* The first poll(5000) of _send_request: the reply is received, or the poll
\* times out and _reconnect starts with disconnect(), or the socket was closed
\* by another thread and the ZMQError handler starts its _reconnect.
Poll1 ==
    /\ rqPc = "wait1"
    /\ IF reqSock = "open" /\ reqFsm = "replied"
       THEN /\ reqFsm' = "idle"
            /\ reqOp' = [op |-> "recv", by |-> lock, holder |-> lock]
            /\ request_returns("success", sends, reconnects, hbAlive)
            /\ UNCHANGED <<running, connected, reqSock, rxPc, reconnects, thrVars>>
       ELSE /\ disconnect(lock, lock)
            /\ reconnects' = reconnects + 1
            /\ rqPc' = IF reqSock = "open" THEN "d1" ELSE "dz"
            /\ UNCHANGED <<lock, cycleReq, cliDone>>
    /\ UNCHANGED <<hubUp, sends, hbAlive, hubCycled, lastReconnect, subVars,
                   dbVars, listRes, expVars, hubcVars, bcnVars, stopped, lateVars, coreVars>>

\* The reconnect of the timeout branch finishes with connect(); when it
\* returns True the request is sent again.
Reconn1(ok) ==
    /\ rqPc = "d1"
    /\ connect(lock, lock, ok, TRUE)
    /\ IF ok
       THEN /\ sends' = sends + 1
            /\ rqPc' = "wait2"
            /\ UNCHANGED <<lock, cycleReq, cliDone>>
       ELSE /\ request_returns("error", sends, reconnects, hbAlive)
            /\ UNCHANGED sends
    /\ UNCHANGED <<hubUp, reconnects, hubCycled, rxNext, sinkLog, starLog, rxRes,
                   dbVars, listRes, expVars, hubcVars, bcnVars, stopped, lateVars, coreVars>>

\* The second poll(5000) of the timeout branch: reply, or the error dict after
\* a second timeout (the socket keeps waiting for the reply), or a ZMQError on
\* a socket closed by another thread, which the outer handler answers with a
\* further _reconnect.
Poll2 ==
    /\ rqPc = "wait2"
    /\ IF reqSock = "open"
       THEN /\ reqFsm' = IF reqFsm = "replied" THEN "idle" ELSE reqFsm
            /\ reqOp' = [op |-> "recv", by |-> lock, holder |-> lock]
            /\ request_returns(IF reqFsm = "replied" THEN "success" ELSE "error",
                               sends, reconnects, hbAlive)
            /\ UNCHANGED <<running, connected, reqSock, rxPc, reconnects, thrVars>>
       ELSE /\ disconnect(lock, lock)
            /\ reconnects' = reconnects + 1
            /\ rqPc' = "dz"
            /\ UNCHANGED <<lock, cycleReq, cliDone>>
    /\ UNCHANGED <<hubUp, sends, hbAlive, hubCycled, lastReconnect, subVars,
                   dbVars, listRes, expVars, hubcVars, bcnVars, stopped, lateVars, coreVars>>

\* The reconnect of the ZMQError handler finishes with connect(); when it
\* returns True the request is sent again.
ReconnZ(ok) ==
    /\ rqPc = "dz"
    /\ connect(lock, lock, ok, TRUE)
    /\ IF ok
       THEN /\ sends' = sends + 1
            /\ rqPc' = "wait2z"
            /\ UNCHANGED <<lock, cycleReq, cliDone>>
       ELSE /\ request_returns("error", sends, reconnects, hbAlive)
            /\ UNCHANGED sends
    /\ UNCHANGED <<hubUp, reconnects, hubCycled, rxNext, sinkLog, starLog, rxRes,
                   dbVars, listRes, expVars, hubcVars, bcnVars, stopped, lateVars, coreVars>>

\* The poll(5000) of the ZMQError handler's retry: reply, or the error dict
\* (timeout, or an exception caught as retry_error).
Poll2z ==
    /\ rqPc = "wait2z"
    /\ reqFsm' = IF reqSock = "open" /\ reqFsm = "replied" THEN "idle" ELSE reqFsm
    /\ reqOp' = [op |-> "recv", by |-> lock, holder |-> lock]
    /\ request_returns(IF reqSock = "open" /\ reqFsm = "replied"
                       THEN "success" ELSE "error", sends, reconnects, hbAlive)
    /\ UNCHANGED <<hubUp, connected, running, reqSock, sends, reconnects, hbAlive,
                   rxPc, hubCycled, lastReconnect, subVars, dbVars, listRes, expVars, hubcVars, bcnVars, stopped, thrVars, lateVars, coreVars>>

\* _receive_events gets the ZMQError of its closed SUB socket. When running is
\* True again it calls _reconnect(), which starts with disconnect(), without
\* taking the lock; otherwise the loop ends.
RxError ==
    /\ rxPc = "err"
    /\ IF running
       THEN disconnect("rx", lock)
       ELSE /\ rxPc' = "gone"
            /\ rxThreads' = IF rxThreads > 0 THEN rxThreads - 1 ELSE 0
            /\ UNCHANGED <<running, connected, reqSock, reqFsm, reqOp, hbThreads>>
    /\ UNCHANGED <<hubUp, lock, rqPc, sends, reconnects, hbAlive, hubCycled,
                   cycleReq, cliDone, lastReconnect, subVars, dbVars, listRes, expVars, hubcVars, bcnVars, stopped, lateVars, coreVars>>

\* The receive thread's _reconnect finishes with connect().
RxConnect(ok) ==
    /\ rxPc = "disc"
    /\ connect("rx", lock, ok, FALSE)
    /\ UNCHANGED <<hubUp, lock, rqPc, sends, reconnects, hubCycled, cycleReq,
                   cliDone, rxNext, sinkLog, starLog, rxRes, dbVars, listRes, expVars, hubcVars, bcnVars, stopped, lateVars, coreVars>>

\* heartbeat_loop finds running or connected False and ends.
HbExit ==
    /\ hbAlive
    /\ lock # "hb"
    /\ ~(running /\ connected)
    /\ hbAlive' = FALSE
    /\ hbThreads' = 0
    /\ UNCHANGED <<hubUp, connected, running, lock, reqSock, reqFsm, rqPc, sends,
                   reconnects, rxPc, hubCycled, cycleReq, cliDone, lastReconnect,
                   reqOp, rxThreads, subVars, dbVars, listRes, expVars, hubcVars, bcnVars, stopped, lateVars, coreVars>>

\* The application calls disconnect() to stop the client. disconnect() does
\* not take the lock, so a request of the heartbeat thread may be in flight.
AppDisconnect ==
    /\ ~stopped
    /\ lock # "app"
    /\ stopped' = TRUE
    /\ disconnect("app", lock)
    /\ UNCHANGED <<hubUp, lock, rqPc, sends, reconnects, hbAlive, hubCycled,
                   cycleReq, cliDone, lastReconnect, subVars, dbVars, listRes,
                   expVars, hubcVars, bcnVars, lateVars, coreVars>>

\* The hub process stops.
HubDown ==
    /\ hubUp
    /\ hubUp' = FALSE
    /\ hubCycled' = FALSE
    /\ cycleReq' = FALSE
    /\ UNCHANGED <<connected, running, lock, reqSock, reqFsm, rqPc, sends,
                   reconnects, hbAlive, rxPc, cliDone, lastReconnect, reqOp,
                   subVars, dbVars, listRes, expVars, hubcVars, bcnVars, stopped, thrVars, lateVars, coreVars>>

\* The hub process is started again. A request waiting in the REQ socket is
\* delivered over the new transport connection and answered, or it had gone
\* out to the old process and stays unanswered.
HubBack(delivered) ==
    /\ ~hubUp
    /\ hubUp' = TRUE
    /\ hubCycled' = TRUE
    /\ reqFsm' = IF reqFsm = "queued" /\ reqSock = "open" /\ delivered
                 THEN "replied" ELSE reqFsm
    /\ UNCHANGED <<connected, running, lock, reqSock, rqPc, sends, reconnects,
                   hbAlive, rxPc, cycleReq, cliDone, lastReconnect, reqOp,
                   subVars, dbVars, listRes, expVars, hubcVars, bcnVars, stopped, thrVars, lateVars, coreVars>>

ClientNext ==
    \/ \E ty \in {"alpha", EVENT_FILTER_ANY} : Subscribe(ty)
    \/ \E r \in Requesters : SendRequest(r)
    \/ PushNotConnected
    \/ Poll1
    \/ \E ok \in BOOLEAN : Reconn1(ok)
    \/ Poll2
    \/ \E ok \in BOOLEAN : ReconnZ(ok)
    \/ Poll2z
    \/ RxError
    \/ \E ok \in BOOLEAN : RxConnect(ok)
    \/ HbExit
    \/ AppDisconnect
    \/ HubDown
    \/ \E delivered \in BOOLEAN : HubBack(delivered)

\* ------------------------------------------------- registrar: GET /v1/list
NoList == [status |-> "none", services |-> {}, at |-> 0, dbFailed |-> FALSE]

ListInit == listRes = NoList

\* Leader.get_list: NotReadyException unless ready(); otherwise the rows of a
\* second list(alive_timeout) query, issued at time t2 on a connection that is
\* up or not (up2). dbFailed: one of the queries it ran did not succeed.
get_list(up, rows, t, up2, t2) ==
    IF ~ready(up, rows, t)
    THEN [raised |-> TRUE, services |-> {}, dbFailed |-> ~up]
    ELSE [raised |-> FALSE, services |-> list(up2, rows, t2, AliveTimeout),
          dbFailed |-> (~up \/ ~up2)]

\* GET /v1/list: list_services -> Leader.get_list. The handler runs without an
\* await, so no beacon comes between its two queries, but the second query may
\* raise (raises2) and the clock may have moved on by then (late).
ListServices(raises2, late) ==
    LET t2 == IF late THEN now + 1 ELSE now
        g == get_list(dbUp, last_seen, now, dbUp /\ ~raises2, t2)
    IN  /\ t2 <= MaxTime
        /\ now' = t2
        /\ readyRes' = IF late THEN "none" ELSE readyRes
        /\ listRes' = [status |-> IF g.raised THEN "500" ELSE "200",
                       services |-> g.services, at |-> t2, dbFailed |-> g.dbFailed]
        /\ UNCHANGED <<dbUp, last_seen, lastAck, beaconResp, idVars, sigVars,
                       orbVars, dbVars, subVars, cliVars, expVars, hubcVars, bcnVars, stopped, thrVars, lateVars>>

\* The beacons of the deployment: each required node under its own key.
ListBeacons ==
    {[name |-> "signaling", type |-> "sig", key |-> "sig-1"],
     [name |-> "orb", type |-> "orb", key |-> "orb-1"]}

ListNext ==
    \/ \E b \in ListBeacons, raises \in BOOLEAN : Beacon(b.name, b.type, b.key, raises)
    \/ \E raises2 \in BOOLEAN, late \in BOOLEAN : ListServices(raises2, late)
    \/ Tick
    \/ DbFail
    \/ DbRecover

\* ------------------------------------- registrar: alive window, wall clock
\* The wall clock in half seconds; `now` is int(time.time()).
WallClock == 2 * now + half

ExpInit ==
    /\ half = 0
    /\ sentAt = [k \in InstanceKeys |-> -1]

\* POST /v1/imalive as in Beacon, with the wall clock of an accepted beacon
\* kept next to the whole second DiscoverManagerPG.update stores.
BeaconAt(name, type, key, raises) ==
    LET rc == dbUp /\ ~raises
    IN  /\ last_seen' = update(dbUp, raises, last_seen, name, type, key, now)
        /\ beaconResp' = [status |-> IF rc THEN "received" ELSE "500",
                          key |-> key,
                          branch |-> IF ~rc THEN "none"
                                     ELSE IF \E r \in last_seen : r.key = key
                                          THEN "update" ELSE "insert",
                          twin |-> /\ refusal(name, type, key, dbUp, raises) = "none"
                                   /\ Twin(beaconResp, lastAck, key, now)]
        /\ lastAck' = IF rc THEN [lastAck EXCEPT ![key] =
                                     [name |-> name, type |-> type, time |-> now]]
                            ELSE lastAck
        /\ sentAt' = IF rc THEN [sentAt EXCEPT ![key] = WallClock] ELSE sentAt
        /\ UNCHANGED <<dbUp, now, readyRes, half, idVars, sigVars, orbVars, dbVars,
                       subVars, cliVars, listRes, hubcVars, bcnVars, stopped, thrVars, lateVars>>

\* Half a second passes; answers given before are no longer current.
HalfTick ==
    /\ now < MaxTime
    /\ half' = 1 - half
    /\ now' = IF half = 1 THEN now + 1 ELSE now
    /\ readyRes' = "none"
    /\ listRes' = NoList
    /\ UNCHANGED <<dbUp, last_seen, lastAck, beaconResp, sentAt, idVars, sigVars,
                   orbVars, dbVars, subVars, cliVars, hubcVars, bcnVars, stopped, thrVars, lateVars>>

ExpNext ==
    \/ \E b \in ListBeacons, raises \in BOOLEAN : BeaconAt(b.name, b.type, b.key, raises)
    \/ CallReady
    \/ \E raises2 \in BOOLEAN : ListServices(raises2, FALSE)
    \/ HalfTick
    \/ DbFail
    \/ DbRecover

\* ------------------------------------------------ hub: client bookkeeping
HubClientIds == {"orb", "web"}
Absent == -1

HubClientsInit ==
    /\ hubClients = [c \in HubClientIds |-> Absent]
    /\ beatNow = 0
    /\ nextCleanup = 0
    /\ beatResp = "none"
    /\ dropSilence = {}

\* ZeroMQSignalingServer._handle_register: the client is entered with
\* last_seen = time.time().
HubRegister(c) ==
    /\ hubClients' = [hubClients EXCEPT ![c] = beatNow]
    /\ UNCHANGED <<beatNow, nextCleanup, beatResp, dropSilence, dbVars, subVars,
                   cliVars, listRes, expVars, bcnVars, stopped, thrVars, lateVars, coreVars>>

\* ZeroMQSignalingServer._handle_heartbeat: last_seen of a registered client
\* is set to time.time(); an unknown client gets an error.
HubHeartbeat(c) ==
    /\ hubClients' = IF hubClients[c] # Absent
                     THEN [hubClients EXCEPT ![c] = beatNow] ELSE hubClients
    /\ beatResp' = IF hubClients[c] # Absent THEN "success" ELSE "error"
    /\ UNCHANGED <<beatNow, nextCleanup, dropSilence, dbVars, subVars, cliVars,
                   listRes, expVars, bcnVars, stopped, thrVars, lateVars, coreVars>>

\* The clients _cleanup_dead_clients removes at time t: those with
\* t - last_seen > self.timeout.
dead_clients(clients, t) ==
    {c \in HubClientIds : clients[c] # Absent /\ t - clients[c] > ZmqTimeout}

\* Signaling.cleanup_dead_subscribers at time t: those with
\* last_seen <= t - subscriber_timeout. The method has no caller.
dead_subscribers(subscribers, t) ==
    {c \in HubClientIds : subscribers[c] # Absent /\ subscribers[c] <= t - SubscriberTimeout}

\* One round of _heartbeat_worker: _cleanup_dead_clients(), then
\* time.sleep(heartbeat_interval).
HubCleanup ==
    /\ beatNow = nextCleanup
    /\ hubClients' = [c \in HubClientIds |->
                        IF c \in dead_clients(hubClients, beatNow) THEN Absent
                        ELSE hubClients[c]]
    /\ dropSilence' = {beatNow - hubClients[c] : c \in dead_clients(hubClients, beatNow)}
    /\ nextCleanup' = beatNow + HeartbeatInterval
    /\ UNCHANGED <<beatNow, beatResp, dbVars, subVars, cliVars, listRes, expVars,
                   bcnVars, stopped, thrVars, lateVars, coreVars>>

\* One heartbeat interval's worth of time passes on the hub, not beyond the
\* worker's next round.
BeatTick ==
    /\ beatNow < MaxBeatTime
    /\ beatNow < nextCleanup
    /\ beatNow' = beatNow + 1
    /\ UNCHANGED <<hubClients, nextCleanup, beatResp, dropSilence, dbVars, subVars,
                   cliVars, listRes, expVars, bcnVars, stopped, thrVars, lateVars, coreVars>>

HubClientsNext ==
    \/ \E c \in HubClientIds : HubRegister(c)
    \/ \E c \in HubClientIds : HubHeartbeat(c)
    \/ HubCleanup
    \/ BeatTick

\* ------------------------------------------- cluster client: beacon loop
Workers == 1..MaxWorkers
Alive(w) == bcnPc[w] \in {"top", "sending", "waiting"}

BeaconInit ==
    /\ bcnPc = [w \in Workers |-> "none"]
    /\ stopEvent = FALSE
    /\ registered = FALSE
    /\ timer = 0
    /\ appPc = "idle"
    /\ stopAsked = FALSE
    /\ fails = 0
    /\ afterStop = [w \in Workers |-> 0]

\* stop_registration_timer up to the join: with a live thread the event is set
\* and the caller joins it; a finished thread is forgotten.
stop_begin(next, joining) ==
    IF timer # 0 /\ Alive(timer)
    THEN /\ stopEvent' = TRUE
         /\ afterStop' = IF stopEvent THEN afterStop ELSE [w \in Workers |-> 0]
         /\ stopAsked' = TRUE
         /\ appPc' = joining
         /\ UNCHANGED <<timer, registered>>
    ELSE /\ timer' = 0
         /\ registered' = IF timer # 0 THEN FALSE ELSE registered
         /\ stopAsked' = (stopAsked \/ timer # 0)
         /\ appPc' = next
         /\ UNCHANGED <<stopEvent, afterStop>>

\* stop_registration_timer() is called.
StopBegin ==
    /\ appPc = "idle"
    /\ timer # 0
    /\ stop_begin("idle", "joinStop")
    /\ UNCHANGED <<bcnPc, fails, dbVars, subVars, cliVars, listRes, expVars,
                   hubcVars, stopped, thrVars, lateVars, coreVars>>

\* register_service() is called: it starts with stop_registration_timer().
RegisterBegin ==
    /\ appPc = "idle"
    /\ stop_begin("request", "joinReg")
    /\ UNCHANGED <<bcnPc, fails, dbVars, subVars, cliVars, listRes, expVars,
                   hubcVars, stopped, thrVars, lateVars, coreVars>>

\* join(timeout=2.0) returns: the thread has finished, or it is inside a
\* request (which may take up to the 30 s request timeout) and the join gave
\* up. The thread and the service are forgotten.
JoinDone ==
    /\ appPc \in {"joinStop", "joinReg"}
    /\ bcnPc[timer] \in {"dead", "sending"}
    /\ timer' = 0
    /\ registered' = FALSE
    /\ appPc' = IF appPc = "joinReg" THEN "request" ELSE "idle"
    /\ UNCHANGED <<bcnPc, stopEvent, stopAsked, fails, afterStop, dbVars, subVars,
                   cliVars, listRes, expVars, hubcVars, stopped, thrVars, lateVars, coreVars>>

\* register_service after the stop: the service is stored and the first
\* beacon is sent. When it succeeds the event is cleared and a new thread is
\* started; when it fails the service is forgotten and the error is raised.
RegisterRequest(ok, w) ==
    /\ appPc = "request"
    /\ ~Alive(w)
    /\ \A v \in Workers : ~Alive(v) => w <= v
    /\ appPc' = "idle"
    /\ registered' = ok
    /\ stopEvent' = IF ok THEN FALSE ELSE stopEvent
    /\ timer' = IF ok THEN w ELSE timer
    /\ bcnPc' = IF ok THEN [bcnPc EXCEPT ![w] = "top"] ELSE bcnPc
    /\ stopAsked' = IF ok THEN FALSE ELSE stopAsked
    /\ fails' = IF ok THEN 0 ELSE fails
    /\ afterStop' = IF ok THEN [v \in Workers |-> 0] ELSE afterStop
    /\ UNCHANGED <<dbVars, subVars, cliVars, listRes, expVars, hubcVars, stopped, thrVars, lateVars, coreVars>>

\* The loop condition of _registration_timer_worker and the entry of
\* _send_registration_request: the thread ends when the event is set, skips
\* the beacon when no service is stored, and otherwise starts the request.
WorkerTop(w) ==
    /\ bcnPc[w] = "top"
    /\ bcnPc' = [bcnPc EXCEPT ![w] = IF stopEvent THEN "dead"
                                     ELSE IF registered THEN "sending"
                                     ELSE "waiting"]
    /\ UNCHANGED <<stopEvent, registered, timer, appPc, stopAsked, fails, afterStop,
                   dbVars, subVars, cliVars, listRes, expVars, hubcVars, stopped, thrVars, lateVars, coreVars>>

\* A slip in the error handling: a failed beacon ends the thread.
after_beacon_stops_on_failure(ok, stored) ==
    IF ok THEN "waiting" ELSE "dead"

\* Where the thread is after the POST /v1/imalive of
\* _send_registration_request: every exception of the request is caught and
\* logged. The log line reads the stored service, so it raises in turn when
\* stop_registration_timer has cleared it meanwhile.
after_beacon(ok, stored) ==
    IF ok \/ stored THEN "waiting" ELSE "dead"

\* The request of one beacon comes back (ok) or fails (timeout, connection
\* refused, 5xx).
WorkerSend(w, ok) ==
    /\ bcnPc[w] = "sending"
    /\ bcnPc' = [bcnPc EXCEPT ![w] = after_beacon(ok, registered)]
    /\ fails' = IF ok THEN 0 ELSE IF fails < MaxFails THEN fails + 1 ELSE fails
    /\ afterStop' = IF stopEvent /\ afterStop[w] < 2
                    THEN [afterStop EXCEPT ![w] = @ + 1] ELSE afterStop
    /\ UNCHANGED <<stopEvent, registered, timer, appPc, stopAsked, dbVars, subVars,
                   cliVars, listRes, expVars, hubcVars, stopped, thrVars, lateVars, coreVars>>

\* _registration_stop_event.wait(1.0) returns: True when the event is set (the
\* loop breaks), False after one second.
WorkerWait(w) ==
    /\ bcnPc[w] = "waiting"
    /\ bcnPc' = [bcnPc EXCEPT ![w] = IF stopEvent THEN "dead" ELSE "top"]
    /\ UNCHANGED <<stopEvent, registered, timer, appPc, stopAsked, fails, afterStop,
                   dbVars, subVars, cliVars, listRes, expVars, hubcVars, stopped, thrVars, lateVars, coreVars>>

WorkerStep(w) ==
    \/ WorkerTop(w)
    \/ \E ok \in BOOLEAN : WorkerSend(w, ok)
    \/ WorkerWait(w)

BeaconNext ==
    \/ StopBegin
    \/ RegisterBegin
    \/ JoinDone
    \/ \E ok \in BOOLEAN, w \in Workers : RegisterRequest(ok, w)
    \/ \E w \in Workers : WorkerStep(w)


\* ------------------------------------------- signaling hub: history query
\* The requests POST /v1/browse is followed with. A filter value is a string;
\* Tokens names the parts of it that a pattern or a parser can react to.
PlainRequest == [timestamp |-> 0, event_types |-> {}, sources |-> {}, affected |-> {},
                 tags |-> {}, limit |-> 0]
BrowseRequests ==
    {PlainRequest,
     [PlainRequest EXCEPT !.event_types = {"alpha"}],
     [PlainRequest EXCEPT !.timestamp = 1, !.limit = 1],
     [PlainRequest EXCEPT !.sources = {"s1"}, !.limit = 2],
     [PlainRequest EXCEPT !.event_types = {"alpha", "beta"}, !.affected = {"a"}, !.tags = {"x"}],
     [PlainRequest EXCEPT !.limit = 1],
     [PlainRequest EXCEPT !.affected = {"a\",\"a"}],
     [PlainRequest EXCEPT !.tags = {"it's"}],
     [PlainRequest EXCEPT !.event_types = {"drop"}],
     [PlainRequest EXCEPT !.sources = {"s1;"}]}

Tokens(v) ==
    CASE v = "a\",\"a" -> {"a", "\"", ","}
      [] v = "it's" -> {"IT", "'", "S"}
      [] v = "drop" -> {"DROP"}
      [] v = "s1;" -> {"S1", ";"}
      [] OTHER -> {v}

\* The alternatives of the pattern of BrowseRequest.is_valid (IGNORECASE).
DenyList ==
    {"ALTER", "CREATE", "DELETE", "DROP", "EXEC", "EXECUTE", "INSERT", "INSERT INTO",
     "MERGE", "SELECT", "UPDATE", "UNION", "UNION ALL", "OR", "AND",
     "'", ";", "\\", "-", "/*", "*/", "--", "@@", "@"}

FilterValues(f) == f.event_types \cup f.sources \cup f.affected \cup f.tags

\* BrowseRequest.is_valid: False when the pattern is found in a value of
\* event_types, sources, affected or tags.
is_valid(f) == \A v \in FilterValues(f) : Tokens(v) \cap DenyList = {}

\* The elements of a stored json array (affected) or text[] (tags).
Elems(col) ==
    CASE col = "[a]" -> {"a"}
      [] col = "[x]" -> {"x"}
      [] col = "[user_session]" -> {"user_session"}
      [] col = "[database_primary]" -> {"database_primary"}
      [] col = "[ui_interaction]" -> {"ui_interaction"}
      [] col = "[system]" -> {"system"}
      [] OTHER -> {}

\* The jsonb parameter find_events builds for one affected value, f'["{a}"]',
\* as the database parses it: the value goes between the quotes as it is.
json_param(a) == IF "\"" \in Tokens(a) THEN Tokens(a) \ {"\"", ","} ELSE {a}

\* The WHERE clause of find_events for one row.
where(row, f) ==
    /\ row.ctime >= f.timestamp
    /\ f.event_types # {} => row.type \in f.event_types
    /\ f.sources # {} => row.owner \in f.sources
    /\ f.affected # {} => \E a \in f.affected : json_param(a) \subseteq Elems(row.affected)
    /\ f.tags # {} => Elems(row.tags) \cap f.tags # {}

\* ORDER BY ctime DESC: the orders the database may return the rows in.
order_by_ctime_desc(S) ==
    {s \in [1..Cardinality(S) -> S] :
        /\ \A i, j \in 1..Cardinality(S) : i # j => s[i] # s[j]
        /\ \A i, j \in 1..Cardinality(S) : i < j => s[i].ctime >= s[j].ctime}

\* LIMIT is added to the query when limit > 0.
limit_rows(s, limit) ==
    IF limit > 0 /\ limit < Len(s) THEN SubSeq(s, 1, limit) ELSE s

\* MessageStorage.find_events: the lists it may return.
find_events(table, f) ==
    {limit_rows(s, f.limit) :
        s \in order_by_ctime_desc({table[i] : i \in {j \in 1..Len(table) : where(table[j], f)}})}

NoBrowse == [status |-> "none", filter |-> PlainRequest, events |-> <<>>, queried |-> FALSE]

BrowseInit == browseRes = NoBrowse

\* Signaling.browse: the request is validated, then the query is run; a
\* failing query raises.
browse(table, f, up) ==
    IF ~is_valid(f)
    THEN {[status |-> "rejected", filter |-> f, events |-> <<>>, queried |-> FALSE]}
    ELSE IF ~up
    THEN {[status |-> "error", filter |-> f, events |-> <<>>, queried |-> TRUE]}
    ELSE {[status |-> "ok", filter |-> f, events |-> ev, queried |-> TRUE] :
            ev \in find_events(table, f)}

\* POST /v1/browse is served.
Browse(f) ==
    /\ browseRes' \in browse(signaling_events, f, sigDbUp)
    /\ UNCHANGED <<dbVars, subVars, cliVars, listRes, expVars, hubcVars, bcnVars,
                   stopped, thrVars, nodeVars, concVars, coreVars>>

BrowseNext ==
    \/ \E m \in PushMessages, ts \in ClientStamps, pubOk \in BOOLEAN : HubPush(m, ts, pubOk)
    \/ HubTick
    \/ SigDbFail
    \/ SigDbRecover
    \/ \E f \in BrowseRequests : Browse(f)

\* ------------------------------------ orb storage: pushes running together
\* The handlers of the gRPC server run on a thread pool and call push_data of
\* the one DataStorage. A call is followed in two steps: the row write
\* (create_record / update_record), then notify_signaling. Row writes are
\* numbered in the order they complete.
Pushers == 1..MaxPushers
NoJob == [n |-> 0, kind |-> "none", id |-> NoKey]

ConcInit ==
    /\ pushPc = [t \in Pushers |-> "idle"]
    /\ pushJob = [t \in Pushers |-> NoJob]
    /\ rowWrites = 0
    /\ eventOf = [e \in 1..MaxEvents |-> 0]

\* push_data up to the return of create_record / update_record.
PushWrite(t, u, body) ==
    LET isNew == is_new_data(u)
        id == IF isNew THEN orb_u_seq + 1 ELSE u
    IN  /\ pushPc[t] = "idle"
        /\ Len(signaling_events) + Cardinality({p \in Pushers : pushPc[p] = "written"}) < MaxEvents
        /\ isNew => orb_u_seq < MaxOrbRows
        /\ orb_data' = IF isNew
                       THEN orb_data \cup {[u |-> id, body |-> to_record(body)]}
                       ELSE {IF r.u = u THEN [r EXCEPT !.body = to_record(body)] ELSE r :
                                r \in orb_data}
        /\ orb_u_seq' = IF isNew THEN id ELSE orb_u_seq
        /\ rowWrites' = rowWrites + 1
        /\ pushJob' = [pushJob EXCEPT ![t] =
                          [n |-> rowWrites + 1,
                           kind |-> IF isNew THEN "FileOp_new" ELSE "FileOp_update",
                           id |-> id]]
        /\ pushPc' = [pushPc EXCEPT ![t] = "written"]
        /\ UNCHANGED <<eventOf, orb_meta, orb_meta_seq, sigConnected, orbRes, fetched,
                       dbUp, idVars, regVars, sigVars,
                       dbVars, subVars, cliVars, listRes, expVars, hubcVars, bcnVars,
                       stopped, thrVars, nodeVars, brVars>>

\* The rest of push_data: notify_signaling; the request goes out under the
\* signaling client's lock and the hub gives the event its eid.
PushNotify(t) ==
    LET job == pushJob[t]
        n == notify_signaling(sigConnected, "ok", TRUE, "ok", sigDbUp, TRUE, HubTables,
                              job.kind, job.id, job.id, now)
        res == [op |-> "push_data", kind |-> job.kind, ok |-> FALSE, written |-> FALSE,
                id |-> job.id, u |-> job.id, body |-> "", pushed |-> "none",
                base |-> Len(signaling_events), given |-> NoKey]
    IN  /\ pushPc[t] = "written"
        /\ OrbEffect(res, TRUE, n)
        /\ eventOf' = IF Len(n.hub.table) > Len(signaling_events)
                      THEN [eventOf EXCEPT ![n.hub.seq] = job.n]
                      ELSE eventOf
        /\ pushPc' = [pushPc EXCEPT ![t] = "idle"]
        /\ pushJob' = [pushJob EXCEPT ![t] = NoJob]
        /\ UNCHANGED <<rowWrites, orb_data, orb_meta, orb_u_seq, orb_meta_seq, fetched,
                       hubNow, sigDbUp, pushReply, dbUp, idVars, regVars,
                       dbVars, subVars, cliVars, listRes, expVars, hubcVars, bcnVars,
                       stopped, thrVars, nodeVars, brVars>>

OrbConcNext ==
    \/ \E t \in Pushers, u \in NoKey..MaxOrbRows, body \in Bodies : PushWrite(t, u, body)
    \/ \E t \in Pushers : PushNotify(t)

\* ------------------------------------------ service node: register_node
\* NodeController of the orb and of the signaling service (the two classes are
\* the same text). A call is followed from its first connection test to its
\* return. The registrar is not answering when the node process starts and
\* may start answering at any moment.
NoNodeHist == [waited |-> FALSE, cameUp |-> FALSE, aborted |-> FALSE, registered |-> FALSE, waits |-> 0]

NodeInit ==
    /\ leaderUp = FALSE
    /\ rnPc = "test"
    /\ leader_available = FALSE
    /\ abortEvent = FALSE
    /\ rnRc = FALSE
    /\ rnRet = "none"
    /\ rnHist = NoNodeHist

\* ConnectorUtils.test_connection: True when the GET answers 200.
test_connection(up) == up

\* self.leader_available = test_connection(url); the wait loop is entered
\* when it is False.
RegisterNodeTest ==
    /\ rnPc = "test"
    /\ leader_available' = test_connection(leaderUp)
    /\ rnRc' = FALSE
    /\ rnPc' = IF test_connection(leaderUp) THEN "avail" ELSE "loop"
    /\ rnHist' = [rnHist EXCEPT !.waited = ~test_connection(leaderUp)]
    /\ UNCHANGED <<leaderUp, abortEvent, rnRet>>
    /\ UNCHANGED nonNodeVars

\* while not rc and not abort: rc = wait_connection(url, 5.0). wait_connection
\* returns True at the first connection test that succeeds and False when the
\* test made after the timeout fails.
RegisterNodeWait ==
    /\ rnPc = "loop"
    /\ IF ~rnRc /\ ~abortEvent
       THEN /\ rnHist.waits < MaxWaits
            /\ rnRc' = test_connection(leaderUp)
            /\ rnPc' = "loop"
            /\ rnHist' = [rnHist EXCEPT !.cameUp = test_connection(leaderUp),
                                        !.waits = @ + 1]
       ELSE /\ rnPc' = "check"
            /\ UNCHANGED <<rnRc, rnHist>>
    /\ UNCHANGED <<leaderUp, leader_available, abortEvent, rnRet>>
    /\ UNCHANGED nonNodeVars

\* if self._abort_event.is_set(): clear it and return False.
RegisterNodeCheck ==
    /\ rnPc = "check"
    /\ IF abortEvent
       THEN /\ abortEvent' = FALSE
            /\ rnRet' = "false"
            /\ rnPc' = "done"
       ELSE /\ rnPc' = "avail"
            /\ UNCHANGED <<abortEvent, rnRet>>
    /\ UNCHANGED <<leaderUp, leader_available, rnRc, rnHist>>
    /\ UNCHANGED nonNodeVars

\* if self.leader_available: create the connector, register_service, return
\* True; otherwise return False.
register_node_result(available) == available

RegisterNodeFinish ==
    /\ rnPc = "avail"
    /\ rnRet' = IF register_node_result(leader_available) THEN "true" ELSE "false"
    /\ rnHist' = [rnHist EXCEPT !.registered = register_node_result(leader_available)]
    /\ rnPc' = "done"
    /\ UNCHANGED <<leaderUp, leader_available, abortEvent, rnRc>>
    /\ UNCHANGED nonNodeVars

\* NodeController.abort_registration(), called by the shutdown handler.
AbortRegistration ==
    /\ rnPc \in {"loop", "check", "avail"}
    /\ ~abortEvent
    /\ abortEvent' = TRUE
    /\ rnHist' = [rnHist EXCEPT !.aborted = TRUE]
    /\ UNCHANGED <<leaderUp, rnPc, leader_available, rnRc, rnRet>>
    /\ UNCHANGED nonNodeVars

\* The registrar starts or stops answering.
LeaderFlip ==
    /\ rnPc # "done"
    /\ leaderUp' = ~leaderUp
    /\ UNCHANGED <<rnPc, leader_available, abortEvent, rnRc, rnRet, rnHist>>
    /\ UNCHANGED nonNodeVars

NodeNext ==
    \/ RegisterNodeTest
    \/ RegisterNodeWait
    \/ RegisterNodeCheck
    \/ RegisterNodeFinish
    \/ AbortRegistration
    \/ LeaderFlip

Init == IdInit /\ RegInit /\ SigInit /\ OrbInit /\ DbInit /\ SubInit /\ ClientInit /\ ListInit /\ ExpInit /\ HubClientsInit /\ BeaconInit /\ NodeInit /\ BrowseInit /\ ConcInit
SpecIds == Init /\ [][IdNext]_vars
SpecRegistry == Init /\ [][RegNext]_vars
SpecSignal == Init /\ [][SigNext]_vars
SpecOrb == Init /\ [][OrbNext]_vars
SpecDb == Init /\ [][DbNext]_vars
SpecSub == Init /\ [][SubNext]_vars
SpecClient == Init /\ [][ClientNext]_vars
SpecList == Init /\ [][ListNext]_vars
SpecExpiry == Init /\ [][ExpNext]_vars
SpecHubClients == Init /\ [][HubClientsNext]_vars
SpecBeacon == Init /\ [][BeaconNext]_vars
SpecBeaconFair == SpecBeacon /\ \A w \in Workers : WF_vars(WorkerStep(w))
SpecNode == Init /\ [][NodeNext]_vars
SpecBrowse == Init /\ [][BrowseNext]_vars
SpecOrbConc == Init /\ [][OrbConcNext]_vars

\* ------------------------------------------------------------------- claims
\* C1: no two calls of get_next_message_id / get_next_object_id return the
\* same value, and a call that starts after another call has returned gets a
\* strictly larger value than that call did.
C1_DistinctAndIncreasing ==
    lastRet # NoRet => (lastRet.fresh /\ lastRet.aboveFloor)

\* C2: every value returned for a counter is strictly greater than every
\* value returned for that counter earlier, restarts included.
C2_StrictlyGreaterThanEarlier ==
    lastRet # NoRet => lastRet.aboveAll

\* Names of the node records whose last beacon lies inside the alive window
\* (now - last_seen <= alive_timeout).
AliveNames == {r.name : r \in {x \in last_seen : now - x.last_update <= AliveTimeout}}

C4_RowMatchesLatestBeacon ==
    \A k \in InstanceKeys :
        lastAck[k] # NoAck =>
            /\ \E r \in last_seen : r.key = k
            /\ \A r \in last_seen : r.key = k =>
                  /\ r.last_update >= lastAck[k].time
                  /\ r.name = lastAck[k].name
                  /\ r.type = lastAck[k].type

\* C4 witness: a later beacon for a known key, with another name and type than
\* the record had, has been answered and the record shows its arguments.
C4_Witness ==
    /\ beaconResp.status = "received"
    /\ beaconResp.branch = "update"
    /\ \E r \in last_seen :
          /\ r.key = beaconResp.key
          /\ r.last_update >= 1
          /\ r.name = "orb" /\ r.type = "orb" /\ r.key = "sig-1"

\* The rows of signaling_events.
EventRows == {signaling_events[i] : i \in DOMAIN signaling_events}

\* C5 (as stated): a push answered "success" with an eid has a row with that
\* eid whose type, payload, tags, affected and owner equal the pushed values,
\* owner being "ownerless" when no source was given.
C5_RowEqualsPush ==
    pushReply.status = "success" =>
        \E r \in EventRows :
            /\ r.eid = pushReply.eid
            /\ r.type = pushReply.msg.event_type
            /\ r.payload = pushReply.msg.message
            /\ r.tags = pushReply.msg.tags
            /\ r.affected = pushReply.msg.affected
            /\ r.owner = IF pushReply.msg.source = Null THEN "ownerless"
                                                        ELSE pushReply.msg.source

\* C5 (amended): as above, except that an empty payload ({}) and an empty
\* affected list ([]) are stored as null.
C5_RowEqualsPushEmptyAsNull ==
    pushReply.status = "success" =>
        \E r \in EventRows :
            /\ r.eid = pushReply.eid
            /\ r.type = pushReply.msg.event_type
            /\ r.payload = IF pushReply.msg.message = "{}" THEN Null
                                                           ELSE pushReply.msg.message
            /\ r.tags = pushReply.msg.tags
            /\ r.affected = IF pushReply.msg.affected = "[]" THEN Null
                                                             ELSE pushReply.msg.affected
            /\ r.owner = IF pushReply.msg.source = Null THEN "ownerless"
                                                        ELSE pushReply.msg.source

\* C5 witness: a push without source and with an empty payload was answered
\* "success" and its row is in the table.
C5_Witness ==
    /\ pushReply.status = "success"
    /\ pushReply.msg.source = Null
    /\ pushReply.msg.message = "{}"
    /\ \E r \in EventRows : r.eid = pushReply.eid /\ r.owner = "ownerless"

\* C6: every published frame belongs to a row that is in the event table, and
\* a push whose append failed is answered "failed" with nothing published.
C6_PublishOnlyAfterAppend ==
    /\ \A i \in DOMAIN published :
          \E r \in EventRows : r.eid = published[i].eid /\ r.type = published[i].type
    /\ (pushReply.status \notin {"none", "error"} /\ ~pushReply.appended) =>
          (pushReply.status = "failed" /\ ~pushReply.published)

\* C6 witness: after an event was published, a later push failed at the append.
C6_Witness ==
    /\ published # <<>>
    /\ pushReply.status = "failed"
    /\ ~pushReply.appended

\* C7: the event table only grows at its end: no existing row is changed or
\* removed, and a new row's eid is greater than every eid already there.
C7_AppendOnly ==
    [][/\ Len(signaling_events') >= Len(signaling_events)
       /\ \A i \in DOMAIN signaling_events : signaling_events'[i] = signaling_events[i]
       /\ \A j \in DOMAIN signaling_events' :
             j > Len(signaling_events) =>
                \A i \in DOMAIN signaling_events :
                    signaling_events'[j].eid > signaling_events[i].eid]_vars

\* C7 witness: pushes have added rows after the start-up rows.
C7_Witness ==
    /\ Len(signaling_events) >= 4
    /\ pushReply.appended

\* C8: for any two rows A, B of the event table, A.eid < B.eid implies
\* A.ctime <= B.ctime.
C8_EidOrderIsCtimeOrder ==
    \A a \in EventRows, b \in EventRows : a.eid < b.eid => a.ctime <= b.ctime
\* The rows the latest orb call added to the event log that are FileOp_new /
\* FileOp_update events carrying the call's id and uuid.
OrbCallEvents ==
    {i \in (orbRes.base + 1)..Len(signaling_events) :
        /\ signaling_events[i].type \in {"FileOp_new", "FileOp_update"}
        /\ signaling_events[i].payload = orb_payload(orbRes.id, orbRes.u)}

\* C9: a push_data / push_meta call that succeeded has exactly one FileOp_new
\* or FileOp_update event with its id and uuid in the log; a call that failed
\* has none.
C9_OneEventPerSuccessfulPush ==
    orbRes.op # "none" =>
        /\ orbRes.ok => Cardinality(OrbCallEvents) = 1
        /\ ~orbRes.ok => Cardinality(OrbCallEvents) = 0

\* C10: when the orb row was written and the signaling push then failed, the
\* row is in the store and the caller got an error, not a success.
C10_PushFailureIsReported ==
    (orbRes.op # "none" /\ orbRes.written /\ orbRes.pushed \notin {"success", "none"}) =>
        /\ IF orbRes.op = "push_data"
           THEN \E r \in orb_data : r.u = orbRes.u /\ r.body = orbRes.body
           ELSE \E r \in orb_meta : r.id = orbRes.id /\ r.u = orbRes.u
        /\ ~orbRes.ok
\* C11: at most one caller is inside execute_query (between taking the
\* connection and the end of its transaction) at any time.
C11_OneStatementInFlight ==
    Cardinality({t \in Callers : xqPc[t] # "idle"}) <= 1

\* C12: a call that returned has its statement committed, a call that raised
\* has left nothing of its statement in the database or in the open
\* transaction, and with no call in progress no transaction is open.
C12_TransactionEndsWithCall ==
    /\ xqDone.result = "ok" => xqDone.stmt \in pgCommitted
    /\ xqDone.result = "error" =>
          (xqDone.stmt \notin pgCommitted /\ xqDone.stmt \notin pgPending)
    /\ (\A t \in Callers : xqPc[t] = "idle") => pgPending = {}

\* C13: a call that met a closed or lost connection while the server was
\* accepting connections, and whose statement is valid, returned normally.
C13_LostConnectionIsRetried ==
    (xqDone.lostAt # "none" /\ xqDone.up /\ ~xqDone.sqlError) => xqDone.result = "ok"
\* C17: the sink is called for a received frame exactly when the frame's type
\* is watched or "*" is watched.
C17_SinkIffWanted ==
    rxRes # NoRx => (rxRes.sink <=> rxRes.wanted)

\* The eids of a sequence of frames follow one another without a gap.
Consecutive(log) ==
    \A i \in 1..(Len(log) - 1) : log[i + 1] = log[i] + 1

\* C19: while "*" is watched, the frames received since it was subscribed are
\* the latest entries the sink was given, in push order, and when every stored
\* push was also published their eids are consecutive.
C19_StarSubscriberGetsAllInOrder ==
    EVENT_FILTER_ANY \in watched_types =>
        /\ Len(starLog) <= Len(sinkLog)
        /\ starLog = SubSeq(sinkLog, Len(sinkLog) - Len(starLog) + 1, Len(sinkLog))
        /\ (Len(published) = Len(signaling_events) - 2) => Consecutive(starLog)
\* C14: for one request the client reconnects at most once and sends at most
\* twice, and the request ends with a reply or an error result.
C14_OneReconnectTwoSends ==
    /\ reconnects <= 1
    /\ sends <= 2
    /\ cliDone.by \in Requesters => (cliDone.reconnects <= 1 /\ cliDone.sends <= 2)

\* C15: the first push_event after the hub went down and came back succeeds
\* after exactly one reconnect and retry, and a heartbeat thread is running
\* when it returns.
C15_PushAfterHubRestart ==
    cliDone.afterCycle =>
        /\ cliDone.result = "success"
        /\ cliDone.reconnects = 1
        /\ cliDone.sends = 2
        /\ cliDone.hb

\* C16: every operation on the REQ socket is done by the thread that holds the
\* client's lock.
C16_ReqSocketOnlyUnderLock ==
    reqOp # NoOp => reqOp.by = reqOp.holder

\* C18: a reconnect leaves the watched set as it was.
C18_ReconnectKeepsWatched ==
    lastReconnect.after = lastReconnect.before
\* C20: an answer of list() that is not the "not ready" failure holds a record
\* for every required node name, and only records inside the alive window.
C20_ListHoldsRequiredAndAlive ==
    listRes.status = "200" =>
        /\ \A n \in RequiredNodes : \E r \in listRes.services : r.name = n
        /\ \A r \in listRes.services : r.last_update >= listRes.at - AliveTimeout
\* C21: the inventory holds at most one record per instance key, and a step
\* that only rewrites records whose key was already known and alive leaves the
\* number of nodes list() returns unchanged.
C21_OneRecordPerKey ==
    /\ [](\A r1, r2 \in last_seen : r1.key = r2.key => r1 = r2)
    /\ [][(/\ now' = now
           /\ \A r \in last_seen' \ last_seen :
                 \E o \in last_seen : /\ o.key = r.key
                                      /\ o.last_update >= now - AliveTimeout)
          => Cardinality(list(TRUE, last_seen', now, AliveTimeout))
               = Cardinality(list(TRUE, last_seen, now, AliveTimeout))]_vars

\* C21 witness: both keys are recorded and alive, and the latest beacon was a
\* repeated one for a known key, answered after the record was first written.
C21_Witness ==
    /\ beaconResp.status = "received"
    /\ beaconResp.branch = "update"
    /\ Cardinality(list(dbUp, last_seen, now, AliveTimeout)) = 2
    /\ \E r \in last_seen : r.key = beaconResp.key /\ r.last_update = now /\ now >= 1
\* Half seconds since the last accepted beacon of the record's key.
Silence(r) == WallClock - sentAt[r.key]

\* C22 (as stated): a node without a beacon for longer than alive_timeout is
\* not counted alive, and when a required name has no node that sent a beacon
\* within alive_timeout, ready() is false and list() fails.
C22_SilentNodeExpires ==
    /\ \A r \in list(dbUp, last_seen, now, AliveTimeout) : Silence(r) <= 2 * AliveTimeout
    /\ (\E n \in RequiredNodes :
           \A r \in last_seen : r.name = n => Silence(r) > 2 * AliveTimeout)
         => (readyRes # "true" /\ listRes.status # "200")

\* C22 (amended): the same with the silence measured in whole seconds of the
\* registrar's clock: a node without a beacon for alive_timeout + 1 seconds or
\* longer is not counted alive, and when a required name has no younger node,
\* ready() is false and list() fails.
C22_SilentNodeExpiresWholeSeconds ==
    /\ \A r \in list(dbUp, last_seen, now, AliveTimeout) :
           Silence(r) < 2 * (AliveTimeout + 1)
    /\ (\E n \in RequiredNodes :
           \A r \in last_seen : r.name = n => Silence(r) >= 2 * (AliveTimeout + 1))
         => (readyRes # "true" /\ listRes.status # "200")

\* C22 witness: both required nodes were alive, the orb node has been silent
\* for alive_timeout + 1 seconds, and ready() and list() have both said no.
C22_Witness ==
    /\ \E r \in last_seen : r.name = "orb" /\ Silence(r) >= 2 * (AliveTimeout + 1)
    /\ \E r \in list(dbUp, last_seen, now, AliveTimeout) : r.name = "signaling"
    /\ readyRes = "false"
    /\ listRes.status = "500"
\* C23: a list request during which a database call failed is answered with
\* an error, never with a node list, and a beacon is answered "received" only
\* when its record has been written.
C23_DbFailureIsAnError ==
    /\ listRes.dbFailed => listRes.status = "500"
    /\ beaconResp.status = "received" =>
           \E r \in last_seen : r.key = beaconResp.key /\ r.last_update = lastAck[r.key].time
\* C24: the hub never drops a client whose last heartbeat is more recent than
\* subscriber_timeout, and no client stays in the bookkeeping once it has been
\* silent for subscriber_timeout and a cleanup round has passed.
C24_DropAfterSubscriberTimeout ==
    /\ \A silence \in dropSilence : silence >= SubscriberTimeout
    /\ \A c \in HubClientIds :
          hubClients[c] # Absent =>
              beatNow - hubClients[c] <= SubscriberTimeout + HeartbeatInterval
\* C25: from a successful registration until a stop is requested the beacon
\* thread is alive, and it comes back to sending a beacon again and again,
\* whatever the outcome of the beacons before.
C25_BeaconLoopKeepsRunning ==
    /\ []((timer # 0 /\ ~stopAsked) => Alive(timer))
    /\ \A w \in Workers :
          (timer = w /\ ~stopAsked /\ bcnPc[w] # "sending")
              ~> (stopAsked \/ bcnPc[w] = "sending")

\* C25 witness: MaxFails beacons in a row have failed, no stop was requested,
\* and the thread is sending the next beacon.
C25_Witness ==
    /\ timer # 0
    /\ ~stopAsked
    /\ fails = MaxFails
    /\ bcnPc[timer] = "sending"
\* A _reconnect is between its disconnect() and the return of its connect().
Reconnecting == rqPc \in {"d1", "dz"} \/ rxPc = "disc"

\* C26: unless the application has disconnected the client, the heartbeat
\* thread and the receive thread are running whenever no reconnect is under
\* way, whatever requests and reconnects have failed before.
C26_LoopsSurviveFailures ==
    (~stopped /\ ~Reconnecting) => (hbAlive /\ rxPc # "gone")

\* C27: once the application has disconnected the client, its receive thread
\* has ended or is handling the error of its closed socket on the way out; it
\* is never polling or reconnecting again.
C27_ReceiverEndsAfterStop ==
    stopped => rxPc \in {"err", "gone"}
\* C28: a push_data that returned has, for a record without u or with u zero,
\* announced FileOp_new and left a row under a key generated for it; for any
\* other u it has announced FileOp_update, kept u, and the row with key u, if
\* there is one, holds the pushed content.
C28_PushDataInsertsOrUpdates ==
    (orbRes.op = "push_data" /\ orbRes.ok) =>
        IF orbRes.given \in {NoKey, 0}
        THEN /\ orbRes.kind = "FileOp_new"
             /\ orbRes.u = orb_u_seq
             /\ \E r \in orb_data : r.u = orbRes.u
        ELSE /\ orbRes.kind = "FileOp_update"
             /\ orbRes.u = orbRes.given
             /\ \A r \in orb_data : r.u = orbRes.given => r.body = to_record(orbRes.body)

\* C29: fetch_data with the key of the record a push_data returned gives a
\* row with that key and with the pushed content.
C29_PushThenFetchRoundTrip ==
    fetched # NoFetch =>
        /\ fetched.row.u = orbRes.u
        /\ fetched.row.body = orbRes.body

C38_OneBeaconLoop ==
    Cardinality({w \in Workers : Alive(w)}) <= 1

\* C40: a push_data or push_meta that returned after announcing FileOp_update
\* has changed a row that existed under the given key.
C40_UpdateOnlyOfExistingRow ==
    (orbRes.op # "none" /\ orbRes.ok /\ orbRes.kind = "FileOp_update") => orbRes.written
\* C35: the integer stored under a key of cluster_state never decreases.
C35_StoredIdNeverDecreases ==
    [][\A k \in StateKeys :
          cluster_state[k] # NoRow =>
              (cluster_state'[k] # NoRow /\ cluster_state'[k] >= cluster_state[k])]_vars
C36_FailedPushAddsNoRow ==
    pushReply.status = "failed" => ~pushReply.appended

\* C34: a register_node call that found the registrar unreachable, waited and
\* saw it become reachable returns success with the node registered, provided
\* the wait was not aborted; and a call returns failure only when the wait
\* was aborted.
C34_RegisterAfterWait ==
    rnPc = "done" =>
        /\ (rnHist.waited /\ rnHist.cameUp /\ ~rnHist.aborted) =>
               (rnRet = "true" /\ rnHist.registered)
        /\ rnRet = "false" => rnHist.aborted

\* C37: a signaling client never has more than one heartbeat thread inside
\* heartbeat_loop nor more than one receive thread inside _receive_events.
C37_OneThreadOfEachKind == hbThreads <= 1 /\ rxThreads <= 1

\* C32: a history query that is answered returns only rows that match the
\* request, each once, newest ctime first; with limit 0 it returns all of
\* them and with limit > 0 the first `limit` of them in that order. A row
\* matches when its ctime is at or after the timestamp and, for every filter
\* that is supplied, one of the filter's values is the row's type, its owner,
\* an element of its affected array, an element of its tags.
C32_HistoryQueryResult ==
    [][(browseRes' # browseRes /\ browseRes'.status = "ok") =>
        LET f == browseRes'.filter
            ev == browseRes'.events
            Matches(row) ==
                /\ row.ctime >= f.timestamp
                /\ f.event_types # {} => row.type \in f.event_types
                /\ f.sources # {} => row.owner \in f.sources
                /\ f.affected # {} => f.affected \cap Elems(row.affected) # {}
                /\ f.tags # {} => f.tags \cap Elems(row.tags) # {}
            M == {signaling_events[i] :
                    i \in {j \in 1..Len(signaling_events) : Matches(signaling_events[j])}}
        IN  /\ \A i \in 1..Len(ev) : ev[i] \in M
            /\ \A i, j \in 1..Len(ev) : i < j => (ev[i] # ev[j] /\ ev[i].ctime >= ev[j].ctime)
            /\ f.limit = 0 => Len(ev) = Cardinality(M)
            /\ f.limit > 0 =>
                   /\ Len(ev) = IF f.limit < Cardinality(M) THEN f.limit ELSE Cardinality(M)
                   /\ \A r \in M : (\A i \in 1..Len(ev) : ev[i] # r) =>
                          \A i \in 1..Len(ev) : ev[i].ctime >= r.ctime]_vars

\* C33: a history query with a filter value that contains an SQL
\* metacharacter (a quote of either kind, a semicolon, a backslash, a comment
\* mark) is rejected and no query is run for it.
C33_MetacharactersRejected ==
    (browseRes.status # "none" /\
     \E v \in FilterValues(browseRes.filter) :
        Tokens(v) \cap {"'", "\"", ";", "\\", "--", "/*", "*/"} # {})
        => (browseRes.status = "rejected" /\ ~browseRes.queried)

\* C31: the events of orb mutations are in the event log in the order of the
\* row writes: of two events, the one that reports the earlier row write has
\* the smaller eid.
C31_EventsInWriteOrder ==
    \A e1, e2 \in 1..MaxEvents :
        (eventOf[e1] # 0 /\ eventOf[e2] # 0 /\ eventOf[e1] < eventOf[e2]) => e1 < e2

====
